---- MODULE Spec2Model ----
(***************************************************************************)
(* Model of the TON yields aggregation pipeline: the pool identity and the *)
(* APY history store (services/apy_history), the asset classifier          *)
(* (services/protocols), the source adapters and the aggregator            *)
(* (services/defillama and the per-provider services).                     *)
(*                                                                         *)
(* Strings are sequences of one-character strings, so that case folding,   *)
(* stripping, splitting and substring search are computed, not assumed.    *)
(* Percentages and money amounts are integers: an APY of 1 is 0.01 %, a    *)
(* TVL of 1 is 1 USD (or one token for the Euler proxy).                   *)
(***************************************************************************)
EXTENDS Integers, Sequences, FiniteSets, TLC

VARIABLES
  idOrig,     \* SpecId: the record whose identity was derived first
  idPool,     \* SpecId: a record that differs from idOrig in case or punctuation only
  idEdits,    \* SpecId: number of variations applied to idOrig
  store,      \* SpecHist: the key-value store, pool identity -> PoolHistory.snapshots
  today,      \* SpecHist: the calendar day returned by getTodayDate
  op,         \* SpecHist: the saveApySnapshot / calculate7DayAverage call in progress
  recorded,   \* SpecHist: per pool identity, the dates for which a snapshot was ever stored
  raw,        \* SpecAgg: per adapter, the provider's answer (pending, failure or raw records)
  pc,         \* SpecAgg: position of fetchTonYields
  buckets,    \* SpecAgg: the GroupedYields returned by fetchTonYields
  call,       \* the last call of a pure operation: its name, argument and result
  euler,      \* SpecEuler: the fetchEulerYields call in progress
  settled,    \* SpecOrder: the adapters in the order in which their calls completed
  fmt,        \* SpecDay: the history phase of the formatChannelMessage call in progress
  runs,       \* SpecOverlap: per pipeline run, its saveApySnapshot call in progress
  post        \* SpecRun: position of postDailyYields after fetchTonYields, and its history writes

vars == <<idOrig, idPool, idEdits, store, today, op, recorded, raw, pc, buckets, call, euler, settled, fmt, runs, post>>

idVars   == <<idOrig, idPool, idEdits>>
histVars == <<store, today, op, recorded>>
aggVars  == <<raw, pc, buckets>>
callVars == <<call, euler, settled, fmt>>
runVars  == <<runs, post>>

\* no pure operation has been called yet
NoCall == [fn |-> "none", arg |-> <<>>, result |-> <<>>]

(***************************************************************************)
(* Strings                                                                 *)
(***************************************************************************)
LowerLetters == <<"a","b","c","d","e","f","g","h","i","j","k","l","m",
                  "n","o","p","q","r","s","t","u","v","w","x","y","z">>
UpperLetters == <<"A","B","C","D","E","F","G","H","I","J","K","L","M",
                  "N","O","P","Q","R","S","T","U","V","W","X","Y","Z">>
DigitChars   == <<"0","1","2","3","4","5","6","7","8","9">>

Range(s) == {s[i] : i \in DOMAIN s}

IsLowerChar(c) == c \in Range(LowerLetters)
IsUpperChar(c) == c \in Range(UpperLetters)
IsDigitChar(c) == c \in Range(DigitChars)

\* the character class [a-zA-Z0-9]
IsAlnumChar(c) == IsLowerChar(c) \/ IsUpperChar(c) \/ IsDigitChar(c)

LetterIndex(c, letters) == CHOOSE i \in DOMAIN letters : letters[i] = c

\* String.prototype.toLowerCase / toUpperCase on one character; the
\* non-ASCII characters of the model ("₮") have no case
toLowerChar(c) == IF IsUpperChar(c) THEN LowerLetters[LetterIndex(c, UpperLetters)] ELSE c
toUpperChar(c) == IF IsLowerChar(c) THEN UpperLetters[LetterIndex(c, LowerLetters)] ELSE c

toLowerCase(s) == [i \in DOMAIN s |-> toLowerChar(s[i])]
toUpperCase(s) == [i \in DOMAIN s |-> toUpperChar(s[i])]

IsAlnumTest(c) == IsAlnumChar(c)

\* s.replace(/[^a-zA-Z0-9]/g, "")
stripNonAlnum(s) == SelectSeq(s, IsAlnumTest)

\* s.includes(t)
includes(s, t) ==
  \E i \in 0..(Len(s) - Len(t)) : \A j \in 1..Len(t) : s[i + j] = t[j]

startsWith(s, t) == Len(t) <= Len(s) /\ \A j \in 1..Len(t) : s[j] = t[j]
endsWith(s, t)   == Len(t) <= Len(s) /\ \A j \in 1..Len(t) : s[Len(s) - Len(t) + j] = t[j]

\* nullable values: the empty sequence is null, a one-element sequence holds the value
None    == <<>>
Some(x) == <<x>>
IsNone(o) == Len(o) = 0
Get(o)  == o[1]

(***************************************************************************)
(* Pool identity (apy_history.ts generatePoolId)                           *)
(***************************************************************************)
Hyphen      == <<"-">>
DefaultMeta == <<"d","e","f","a","u","l","t">>

\* JavaScript truthiness of `string | null`: null and "" are falsy
metaIsTruthy(poolMeta) == ~IsNone(poolMeta) /\ Len(Get(poolMeta)) > 0

generatePoolId_digits(source, asset, poolMeta) ==
  LET IsLetterTest(c) == IsLowerChar(c) \/ IsUpperChar(c)
      strip(s) == SelectSeq(s, IsLetterTest)
      meta == IF metaIsTruthy(poolMeta) THEN strip(Get(poolMeta)) ELSE DefaultMeta
  IN  toLowerCase(strip(source) \o Hyphen \o strip(asset) \o Hyphen \o meta)

generatePoolId(source, asset, poolMeta) ==
  LET cleanSource == stripNonAlnum(source)
      cleanAsset  == stripNonAlnum(asset)
      cleanMeta   == IF metaIsTruthy(poolMeta) THEN stripNonAlnum(Get(poolMeta))
                                               ELSE DefaultMeta
  IN  toLowerCase(cleanSource \o Hyphen \o cleanAsset \o Hyphen \o cleanMeta)

poolIdOf(pool) == generatePoolId(pool.source, pool.asset, pool.poolMeta)

(***************************************************************************)
(* SpecId: the identity of a record and of its case/punctuation variants   *)
(***************************************************************************)
MaxIdEdits == 2

PunctChars == {"-", " ", "#"}

\* records as the adapters emit them (source, asset, poolMeta), shortened
IdPools ==
  { [source |-> <<"S","t",".","f","i">>, asset |-> <<"T","-","u">>, poolMeta |-> None],
    [source |-> <<"E","v">>,             asset |-> <<"U","₮">>,     poolMeta |-> Some(<<"#","1">>)],
    [source |-> <<"A"," ","b">>,         asset |-> <<"X","-","Y">>, poolMeta |-> Some(<<"P"," ","1">>)],
    [source |-> <<"K","7">>,             asset |-> <<"t">>,         poolMeta |-> Some(<<>>)] }

IdFields == {"source", "asset", "poolMeta"}

\* the text of a field; a null poolMeta has no text to vary
HasText(pool, f)  == f # "poolMeta" \/ ~IsNone(pool.poolMeta)
TextOf(pool, f)   == IF f = "poolMeta" THEN Get(pool.poolMeta) ELSE pool[f]
WithText(pool, f, t) ==
  IF f = "poolMeta" THEN [pool EXCEPT !.poolMeta = Some(t)] ELSE [pool EXCEPT ![f] = t]

toggleChar(c) == IF IsUpperChar(c) THEN toLowerChar(c) ELSE toUpperChar(c)

\* the same record with the case of one letter changed
ToggleCase(f, i) ==
  /\ idEdits < MaxIdEdits
  /\ HasText(idPool, f)
  /\ i \in DOMAIN TextOf(idPool, f)
  /\ LET t == TextOf(idPool, f) IN
       /\ IsLowerChar(t[i]) \/ IsUpperChar(t[i])
       /\ idPool' = WithText(idPool, f, [t EXCEPT ![i] = toggleChar(t[i])])
  /\ idEdits' = idEdits + 1
  /\ UNCHANGED <<idOrig, histVars, aggVars, callVars, runVars>>

\* the same record with one non-alphanumeric character added
InsertPunct(f, i, c) ==
  /\ idEdits < MaxIdEdits
  /\ HasText(idPool, f)
  /\ i \in 0..Len(TextOf(idPool, f))
  /\ LET t == TextOf(idPool, f) IN
       idPool' = WithText(idPool, f, SubSeq(t, 1, i) \o <<c>> \o SubSeq(t, i + 1, Len(t)))
  /\ idEdits' = idEdits + 1
  /\ UNCHANGED <<idOrig, histVars, aggVars, callVars, runVars>>

\* the same record with one non-alphanumeric character removed
DeletePunct(f, i) ==
  /\ idEdits < MaxIdEdits
  /\ HasText(idPool, f)
  /\ i \in DOMAIN TextOf(idPool, f)
  /\ LET t == TextOf(idPool, f) IN
       /\ ~IsAlnumChar(t[i])
       /\ idPool' = WithText(idPool, f, SubSeq(t, 1, i - 1) \o SubSeq(t, i + 1, Len(t)))
  /\ idEdits' = idEdits + 1
  /\ UNCHANGED <<idOrig, histVars, aggVars, callVars, runVars>>

\* the longest text of IdPools after MaxIdEdits insertions
MaxIdLen == 5 + MaxIdEdits

NextId ==
  \/ \E f \in IdFields, i \in 1..MaxIdLen : ToggleCase(f, i)
  \/ \E f \in IdFields, i \in 0..MaxIdLen, c \in PunctChars : InsertPunct(f, i, c)
  \/ \E f \in IdFields, i \in 1..MaxIdLen : DeletePunct(f, i)


(***************************************************************************)
(* APY history store (apy_history.ts)                                      *)
(***************************************************************************)
MAX_HISTORY_DAYS     == 30
MIN_DAYS_FOR_AVERAGE == 3
AVERAGE_WINDOW       == 7

\* ApySnapshot: date is the day number behind the ISO string YYYY-MM-DD (the
\* strings compare as the day numbers do), apy is pool.apyTotal
Snapshot(date, apy) == [date |-> date, apy |-> apy]

\* Array.prototype.sort((a, b) => b.date.localeCompare(a.date)): a stable
\* sort, newest date first
RECURSIVE sortByDateDesc(_)
sortByDateDesc(s) ==
  IF Len(s) <= 1 THEN s
  ELSE LET init == sortByDateDesc(SubSeq(s, 1, Len(s) - 1))
           x    == s[Len(s)]
           \* x goes behind every element that does not sort after it
           k    == Cardinality({i \in DOMAIN init : init[i].date >= x.date})
       IN  SubSeq(init, 1, k) \o <<x>> \o SubSeq(init, k + 1, Len(init))

\* s.slice(0, n)
sliceHead(s, n) == SubSeq(s, 1, IF Len(s) < n THEN Len(s) ELSE n)

\* snapshots.findIndex(s => s.date === today), 0 when there is none
findIndexOfDate(snapshots, date) ==
  IF \E i \in DOMAIN snapshots : snapshots[i].date = date
  THEN CHOOSE i \in DOMAIN snapshots :
         /\ snapshots[i].date = date
         /\ \A j \in 1..(i - 1) : snapshots[j].date # date
  ELSE 0

\* the records handed to the store; the first two fold to the same identity
\* (the pool as two runs see it, with two values of apyTotal)
HistPoolA == [source |-> <<"S","t",".","f","i">>, asset |-> <<"T","O","N">>, poolMeta |-> None,
              apyTotal |-> 120]
HistPoolB == [source |-> <<"s","t","f","i">>,     asset |-> <<"t","o","n">>, poolMeta |-> Some(<<>>),
              apyTotal |-> 480]
HistPoolC == [source |-> <<"E","V","A","A">>,     asset |-> <<"U","S","D","T">>,
              poolMeta |-> Some(<<"M","a","i","n">>), apyTotal |-> 300]

HistPools == {HistPoolA, HistPoolB, HistPoolC}

HistIds == {poolIdOf(p) : p \in HistPools}

\* saveApySnapshot, from the loaded history to the history handed to
\* savePoolHistory: upsert of today's snapshot, sort, retention cap
upsertAlwaysPush(snapshots, date, apy) ==
  sliceHead(sortByDateDesc(Append(snapshots, Snapshot(date, apy))), MAX_HISTORY_DAYS)

upsertSnapshot(snapshots, date, apy) ==
  LET existingIndex == findIndexOfDate(snapshots, date)
      snapshot == Snapshot(date, apy)
      updated == IF existingIndex >= 1
                 THEN [snapshots EXCEPT ![existingIndex] = snapshot]
                 ELSE Append(snapshots, snapshot)
  IN  sliceHead(sortByDateDesc(updated), MAX_HISTORY_DAYS)

\* loadPoolHistory: the stored snapshots, or none when the key is absent or
\* the store cannot be read
loadPoolHistory(poolId, readOk) == IF readOk THEN store[poolId] ELSE <<>>

\* variant: the write puts the snapshots in front of the stored ones instead
\* of replacing them
savePoolHistory_adds(poolId, snapshots, writeOk) ==
  IF writeOk THEN [store EXCEPT ![poolId] = snapshots \o @] ELSE store

\* savePoolHistory: kv.set of the whole history, or nothing when the store
\* cannot be written (the error is logged and swallowed)
savePoolHistory(poolId, snapshots, writeOk) ==
  IF writeOk THEN [store EXCEPT ![poolId] = snapshots] ELSE store

RECURSIVE sumApy(_)
sumApy(snaps) == IF Len(snaps) = 0 THEN 0 ELSE snaps[1].apy + sumApy(Tail(snaps))

\* calculate7DayAverage on the loaded history: null below the minimum, else
\* the mean of the first seven entries, kept as the exact fraction sum / n
calculate7DayAverage_atMost(snapshots) ==
  IF Len(snapshots) <= MIN_DAYS_FOR_AVERAGE THEN None
  ELSE LET last7Days == sliceHead(snapshots, AVERAGE_WINDOW)
       IN  Some([sum |-> sumApy(last7Days), n |-> Len(last7Days)])

calculate7DayAverage_all(snapshots) ==
  IF Len(snapshots) < MIN_DAYS_FOR_AVERAGE THEN None
  ELSE Some([sum |-> sumApy(snapshots), n |-> Len(snapshots)])

calculate7DayAverage(snapshots) ==
  IF Len(snapshots) < MIN_DAYS_FOR_AVERAGE THEN None
  ELSE LET last7Days == sliceHead(snapshots, AVERAGE_WINDOW)
       IN  Some([sum |-> sumApy(last7Days), n |-> Len(last7Days)])

(***************************************************************************)
(* SpecHist: calls of saveApySnapshot and calculate7DayAverage, one after  *)
(* another, on a store that may fail to be read or written                 *)
(***************************************************************************)
MaxNewDays == 1

\* the day of the first call; the store already holds up to 30 earlier days
Day0 == MAX_HISTORY_DAYS + 10

\* lengths of the history the store holds for HistPoolA at the first call
HistInitLens == (0..(AVERAGE_WINDOW + 1)) \cup {MAX_HISTORY_DAYS - 1, MAX_HISTORY_DAYS}

\* the APY recorded on an earlier day
PastApy(d) == 100 + 37 * (d % 5)

InitHistory(n) == [i \in 1..n |-> Snapshot(Day0 - i, PastApy(Day0 - i))]

NoPool == [source |-> <<>>, asset |-> <<>>, poolMeta |-> None, apyTotal |-> 0]

IdleOp == [kind |-> "none", pc |-> "idle", pool |-> NoPool, apy |-> 0, date |-> 0,
           history |-> <<>>, readOk |-> TRUE, writeOk |-> TRUE, before |-> <<>>,
           result |-> None]

DatesOf(snaps) == {snaps[i].date : i \in DOMAIN snaps}

\* saveApySnapshot(pool) is called
SaveApySnapshotBegin(pool) ==
  /\ op.pc = "idle"
  /\ op' = [IdleOp EXCEPT !.kind = "save", !.pc = "load", !.pool = pool]
  /\ UNCHANGED <<store, today, recorded, idVars, aggVars, callVars, runVars>>

\* loadPoolHistory has answered; today's snapshot is upserted, the history
\* sorted and capped
SaveApySnapshotLoaded(readOk) ==
  /\ op.kind = "save" /\ op.pc = "load"
  /\ LET history == loadPoolHistory(poolIdOf(op.pool), readOk) IN
       op' = [op EXCEPT !.pc = "save", !.readOk = readOk, !.date = today,
                        !.apy = op.pool.apyTotal,
                        !.history = upsertSnapshot(history, today, op.pool.apyTotal)]
  /\ UNCHANGED <<store, today, recorded, idVars, aggVars, callVars, runVars>>

\* savePoolHistory has answered
SaveApySnapshotSaved(writeOk) ==
  /\ op.kind = "save" /\ op.pc = "save"
  /\ LET poolId == poolIdOf(op.pool) IN
       /\ store' = savePoolHistory(poolId, op.history, writeOk)
       /\ recorded' = IF writeOk
                      THEN [recorded EXCEPT ![poolId] = @ \cup {op.date}]
                      ELSE recorded
       /\ op' = [op EXCEPT !.pc = "done", !.writeOk = writeOk, !.before = store[poolId]]
  /\ UNCHANGED <<today, idVars, aggVars, callVars, runVars>>

\* calculate7DayAverage(pool) is called
Calculate7DayAverageBegin(pool) ==
  /\ op.pc = "idle"
  /\ op' = [IdleOp EXCEPT !.kind = "avg", !.pc = "load", !.pool = pool]
  /\ UNCHANGED <<store, today, recorded, idVars, aggVars, callVars, runVars>>

\* loadPoolHistory has answered and calculate7DayAverage returns
Calculate7DayAverageLoaded(readOk) ==
  /\ op.kind = "avg" /\ op.pc = "load"
  /\ LET history == loadPoolHistory(poolIdOf(op.pool), readOk) IN
       op' = [op EXCEPT !.pc = "done", !.readOk = readOk, !.history = history,
                        !.result = calculate7DayAverage(history)]
  /\ UNCHANGED <<store, today, recorded, idVars, aggVars, callVars, runVars>>

\* the caller takes the result; the next call may start
OpReturn ==
  /\ op.pc = "done"
  /\ op' = IdleOp
  /\ UNCHANGED <<store, today, recorded, idVars, aggVars, callVars, runVars>>

\* midnight UTC passes
Tick ==
  /\ today < Day0 + MaxNewDays
  /\ today' = today + 1
  /\ UNCHANGED <<store, op, recorded, idVars, aggVars, callVars, runVars>>

NextHist ==
  \/ \E pool \in HistPools : SaveApySnapshotBegin(pool)
  \/ \E readOk \in BOOLEAN : SaveApySnapshotLoaded(readOk)
  \/ \E writeOk \in BOOLEAN : SaveApySnapshotSaved(writeOk)
  \/ \E pool \in HistPools : Calculate7DayAverageBegin(pool)
  \/ \E readOk \in BOOLEAN : Calculate7DayAverageLoaded(readOk)
  \/ OpReturn
  \/ Tick


(***************************************************************************)
(* Asset classifier (protocols.ts)                                         *)
(***************************************************************************)
\* the elements of a list satisfy the test for some element: Array.prototype.some
SeqSome(list, Test(_)) == \E i \in DOMAIN list : Test(list[i])

IsUpperAlnumTest(c) == IsUpperChar(c) \/ IsDigitChar(c)

\* s.replace(/[^A-Z0-9]/g, "")
stripNonUpperAlnum(s) == SelectSeq(s, IsUpperAlnumTest)

\* s.split(/[-\/]/): the parts between the separators, empty parts included
RECURSIVE splitPair(_)
splitPair(s) ==
  IF \A i \in DOMAIN s : s[i] \notin {"-", "/"} THEN <<s>>
  ELSE LET k == CHOOSE i \in DOMAIN s :
                  /\ s[i] \in {"-", "/"}
                  /\ \A j \in 1..(i - 1) : s[j] \notin {"-", "/"}
       IN  <<SubSeq(s, 1, k - 1)>> \o splitPair(SubSeq(s, k + 1, Len(s)))

\* s.replace(/pat/g, rep) for a literal pattern
RECURSIVE replaceAll(_, _, _)
replaceAll(s, pat, rep) ==
  IF Len(s) < Len(pat) \/ Len(pat) = 0 THEN s
  ELSE IF startsWith(s, pat)
       THEN rep \o replaceAll(SubSeq(s, Len(pat) + 1, Len(s)), pat, rep)
       ELSE <<s[1]>> \o replaceAll(Tail(s), pat, rep)

EXCLUDED_ASSETS ==
  << <<"N","O","T">>, <<"D","O","G","S">>, <<"H","M","S","T","R">>, <<"C","A","T","I">>,
    <<"R","E","D","O">>, <<"J","E","T","T","O","N">>, <<"P","U","N","K">>, <<"A","N","O","N">> >>

\* isExcludedAsset: the symbol is a memecoin or has one as a hyphen-bounded part
isExcludedAsset(symbol) ==
  LET upperSymbol == toUpperCase(symbol)
      Hit(excluded) ==
        \/ upperSymbol = excluded
        \/ startsWith(upperSymbol, excluded \o Hyphen)
        \/ endsWith(upperSymbol, Hyphen \o excluded)
        \/ includes(upperSymbol, Hyphen \o excluded \o Hyphen)
  IN  SeqSome(EXCLUDED_ASSETS, Hit)

ETH_ASSETS ==
  << <<"E","T","H">>, <<"W","E","T","H">>, <<"s","t","E","T","H">>, <<"w","s","t","E","T","H">>,
    <<"S","T","E","T","H">>, <<"W","S","T","E","T","H">>, <<"r","E","T","H">>, <<"R","E","T","H">>,
    <<"r","s","E","T","H">>, <<"w","r","s","E","T","H">>, <<"R","S","E","T","H">>, <<"W","R","S","E","T","H">>,
    <<"p","u","f","E","T","H">>, <<"P","U","F","E","T","H">>, <<"e","E","T","H">>, <<"w","e","E","T","H">>,
    <<"E","E","T","H">>, <<"W","E","E","T","H">> >>

\* isEthAsset: the folded symbol is, or starts with, a folded ETH identifier
isEthAsset(symbol) ==
  LET upperSymbol == stripNonUpperAlnum(toUpperCase(symbol))
      Hit(eth) == \/ upperSymbol = stripNonUpperAlnum(eth)
                  \/ startsWith(upperSymbol, stripNonUpperAlnum(eth))
  IN  SeqSome(ETH_ASSETS, Hit)

STABLE_ASSETS ==
  << <<"U","S","D","T">>, <<"U","S","D","₮">>, <<"U","S","D","C">>, <<"D","A","I">>,
    <<"U","S","D","E">>, <<"S","U","S","D","E">>, <<"T","S","U","S","D","E">>, <<"U","S","R">>,
    <<"R","L","P">>, <<"W","S","T","U","S","R">>, <<"S","T","U","S","R">>, <<"U","S","D","0">>,
    <<"U","S","D","0","+","+">>, <<"U","S","N">>, <<"S","U","S","N">>, <<"T","U","S","D">>,
    <<"B","U","S","D">>, <<"F","R","A","X">>, <<"L","U","S","D">> >>

BTC_ASSETS ==
  << <<"c","b","B","T","C">>, <<"W","B","T","C">>, <<"t","B","T","C">>, <<"B","T","C">>,
    <<"L","B","T","C">>, <<"M","-","B","T","C">>, <<"M","B","T","C">> >>

TON_ASSETS ==
  << <<"T","O","N">>, <<"T","S","T","O","N">>, <<"S","T","T","O","N">>, <<"H","T","O","N">>,
    <<"B","M","T","O","N">>, <<"W","T","O","N">> >>

CORRELATED_TON ==
  << <<<<"T","O","N">>, <<"T","S","T","O","N">>>>,
     <<<<"T","O","N">>, <<"S","T","T","O","N">>>>,
     <<<<"T","O","N">>, <<"H","T","O","N">>>>,
     <<<<"T","O","N">>, <<"B","M","T","O","N">>>>,
     <<<<"T","S","T","O","N">>, <<"S","T","T","O","N">>>>,
     <<<<"T","S","T","O","N">>, <<"H","T","O","N">>>>,
     <<<<"S","T","T","O","N">>, <<"H","T","O","N">>>>,
     <<<<"S","T","T","O","N">>, <<"B","M","T","O","N">>>> >>

CORRELATED_STABLE ==
  << <<<<"U","S","D","T">>, <<"U","S","D","C">>>>,
     <<<<"U","S","D","T">>, <<"U","S","D","E">>>>,
     <<<<"U","S","D","T">>, <<"U","S","N">>>>,
     <<<<"U","S","D","T">>, <<"U","S","D","0">>>>,
     <<<<"U","S","D","T">>, <<"U","S","R">>>>,
     <<<<"U","S","D","T">>, <<"D","A","I">>>>,
     <<<<"U","S","D","C">>, <<"U","S","D","E">>>>,
     <<<<"U","S","D","C">>, <<"U","S","N">>>>,
     <<<<"U","S","D","C">>, <<"U","S","D","0">>>>,
     <<<<"U","S","D","C">>, <<"U","S","R">>>>,
     <<<<"U","S","D","E">>, <<"U","S","N">>>>,
     <<<<"U","S","D","E">>, <<"U","S","D","0">>>>,
     <<<<"U","S","D","E">>, <<"U","S","R">>>>,
     <<<<"U","S","D","E">>, <<"S","U","S","D","E">>>>,
     <<<<"U","S","D","E">>, <<"T","S","U","S","D","E">>>>,
     <<<<"T","S","U","S","D","E">>, <<"S","U","S","D","E">>>>,
     <<<<"T","S","U","S","D","E">>, <<"U","S","D","T">>>>,
     <<<<"T","S","U","S","D","E">>, <<"U","S","D","C">>>>,
     <<<<"U","S","N">>, <<"U","S","D","0">>>>,
     <<<<"U","S","N">>, <<"U","S","R">>>>,
     <<<<"U","S","D","0">>, <<"U","S","R">>>>,
     <<<<"U","S","R">>, <<"W","S","T","U","S","R">>>>,
     <<<<"U","S","R">>, <<"R","L","P">>>> >>

CORRELATED_BTC ==
  << <<<<"B","T","C">>, <<"W","B","T","C">>>>,
     <<<<"B","T","C">>, <<"c","b","B","T","C">>>>,
     <<<<"B","T","C">>, <<"L","B","T","C">>>>,
     <<<<"c","b","B","T","C">>, <<"L","B","T","C">>>>,
     <<<<"c","b","B","T","C">>, <<"W","B","T","C">>>>,
     <<<<"L","B","T","C">>, <<"W","B","T","C">>>>,
     <<<<"c","b","B","T","C">>, <<"M","B","T","C">>>> >>

CORRELATED_PAIRS(assetType) ==
  CASE assetType = "TON"    -> CORRELATED_TON
    [] assetType = "STABLE" -> CORRELATED_STABLE
    [] assetType = "BTC"    -> CORRELATED_BTC

\* a variant of classifyAsset that looks for a BTC identifier first
classifyAsset_btcFirst(symbol) ==
  LET upperSymbol == stripNonUpperAlnum(toUpperCase(symbol))
      IsIn(id) == includes(upperSymbol, stripNonUpperAlnum(id))
  IN  IF SeqSome(BTC_ASSETS, IsIn) THEN "BTC"
      ELSE IF SeqSome(STABLE_ASSETS, IsIn) THEN "STABLE"
      ELSE "TON"

\* classifyAsset: stablecoins first, then BTC, else TON
classifyAsset(symbol) ==
  LET upperSymbol == stripNonUpperAlnum(toUpperCase(symbol))
      IsIn(id) == includes(upperSymbol, stripNonUpperAlnum(id))
  IN  IF SeqSome(STABLE_ASSETS, IsIn) THEN "STABLE"
      ELSE IF SeqSome(BTC_ASSETS, IsIn) THEN "BTC"
      ELSE "TON"

\* isSingleAsset: no pair separator in the symbol
isSingleAsset(symbol) == ~includes(symbol, <<"-">>) /\ ~includes(symbol, <<"/">>)

VAULT_SUFFIXES ==
  << <<"V","A","U","L","T">>, <<"P","O","O","L">>, <<"L","P">>, <<"X","A","U","T">>,
    <<"M","A","I","N">>, <<"S","T","A","B","L","E">>, <<"A","L","T","S">> >>

\* /^\d+$/.test(part)
isNumeric(part) == Len(part) > 0 /\ \A i \in DOMAIN part : IsDigitChar(part[i])

\* [...new Set(list)]: the first occurrence of every element, in order
RECURSIVE uniqueInOrder(_)
uniqueInOrder(list) ==
  IF Len(list) = 0 THEN <<>>
  ELSE LET init == uniqueInOrder(SubSeq(list, 1, Len(list) - 1))
           x    == list[Len(list)]
       IN  IF x \in Range(init) THEN init ELSE Append(init, x)

\* parseLpPair on the parts of the split symbol
pairOfParts(parts) ==
  LET IsAssetPart(part) ==
        LET HasSuffix(suffix) == includes(toUpperCase(part), suffix)
        IN  ~SeqSome(VAULT_SUFFIXES, HasSuffix) /\ ~isNumeric(part)
      assetParts == SelectSeq(parts, IsAssetPart)
      Upper(list) == [i \in DOMAIN list |-> toUpperCase(list[i])]
      FirstTwo(list) == IF Len(list) >= 2 THEN Some(<<list[1], list[2]>>) ELSE None
  IN  IF Len(parts) = 2 THEN FirstTwo(Upper(parts))
      ELSE IF Len(parts) >= 3 /\ Len(assetParts) = 2 THEN FirstTwo(Upper(assetParts))
      ELSE IF Len(parts) >= 3 /\ Len(assetParts) >= 3
      THEN FirstTwo(uniqueInOrder(Upper(assetParts)))
      ELSE None

\* parseLpPair: the two assets of a pair symbol, upper-cased, or null: both
\* parts of a two-part symbol; of a longer one the parts that are neither a
\* vault suffix nor a number, when they are two, or their first two
\* distinct ones
parseLpPair(symbol) == pairOfParts(splitPair(symbol))

USDT_UNICODE == <<"U","S","D","₮">>
USDT_ASCII   == <<"U","S","D","T">>
TON_SYMBOL   == <<"T","O","N">>
USDT_VARIANTS == {<<"U","S","D","T">>, <<"T","S","U","S","D","T">>, <<"U","S","D","T",".","E">>}

\* isTonUsdtPool on the parsed pair
isTonUsdtPair(pair) ==
  IF IsNone(pair) THEN FALSE
  ELSE LET asset1 == replaceAll(Get(pair)[1], USDT_UNICODE, USDT_ASCII)
           asset2 == replaceAll(Get(pair)[2], USDT_UNICODE, USDT_ASCII)
           isTon1  == asset1 = TON_SYMBOL
           isTon2  == asset2 = TON_SYMBOL
           isUsdt1 == asset1 \in USDT_VARIANTS
           isUsdt2 == asset2 \in USDT_VARIANTS
       IN  (isTon1 /\ isUsdt2) \/ (isTon2 /\ isUsdt1)

\* isTonUsdtPool: exactly TON against USDT (or tsUSDT, USDT.e), either order
isTonUsdtPool(symbol) == isTonUsdtPair(parseLpPair(symbol))

\* isCorrelatedPair on the parsed pair: some table entry is contained in
\* the two assets, in either order
pairIsCorrelated(pair, assetType) ==
  IF IsNone(pair) THEN FALSE
  ELSE LET Matches(entry) ==
             \/ includes(Get(pair)[1], entry[1]) /\ includes(Get(pair)[2], entry[2])
             \/ includes(Get(pair)[1], entry[2]) /\ includes(Get(pair)[2], entry[1])
       IN  SeqSome(CORRELATED_PAIRS(assetType), Matches)

\* isCorrelatedPair: single assets always, pairs by the table
isCorrelatedPair(symbol, assetType) ==
  IF isSingleAsset(symbol) THEN TRUE
  ELSE pairIsCorrelated(parseLpPair(symbol), assetType)

\* pairBelongsToCategory on the parsed pair: both assets contain an
\* identifier of the category's own list
pairInCategory(pair, assetType) ==
  IF IsNone(pair) THEN FALSE
  ELSE LET In1(id)  == includes(Get(pair)[1], id)
           In2(id)  == includes(Get(pair)[2], id)
           In1s(id) == includes(Get(pair)[1], stripNonUpperAlnum(id))
           In2s(id) == includes(Get(pair)[2], stripNonUpperAlnum(id))
       IN  CASE assetType = "TON"    -> SeqSome(TON_ASSETS, In1) /\ SeqSome(TON_ASSETS, In2)
             [] assetType = "STABLE" -> SeqSome(STABLE_ASSETS, In1s) /\ SeqSome(STABLE_ASSETS, In2s)
             [] assetType = "BTC"    -> SeqSome(BTC_ASSETS, In1) /\ SeqSome(BTC_ASSETS, In2)
             [] OTHER -> FALSE

\* pairBelongsToCategory: a single asset by its class, a pair by its assets
pairBelongsToCategory(symbol, assetType) ==
  IF isSingleAsset(symbol) THEN classifyAsset(symbol) = assetType
  ELSE pairInCategory(parseLpPair(symbol), assetType)

(***************************************************************************)
(* Values shared by the adapters                                           *)
(***************************************************************************)
\* x ?? d
orElse(x, d) == IF IsNone(x) THEN d ELSE Get(x)

\* x || 0 for a number that may be missing
orZero(x) == IF IsNone(x) THEN 0 ELSE Get(x)

Max(a, b) == IF a >= b THEN a ELSE b

Space == <<" ">>

\* s.trim()
RECURSIVE trimStart(_)
trimStart(s) == IF Len(s) > 0 /\ s[1] = " " THEN trimStart(Tail(s)) ELSE s

RECURSIVE trimEnd(_)
trimEnd(s) ==
  IF Len(s) > 0 /\ s[Len(s)] = " " THEN trimEnd(SubSeq(s, 1, Len(s) - 1)) ELSE s

trim(s) == trimEnd(trimStart(s))

\* s.replace(/word/gi, ""), word given in lower case
RECURSIVE removeIgnoreCase(_, _)
removeIgnoreCase(s, word) ==
  IF Len(s) < Len(word) THEN s
  ELSE IF toLowerCase(SubSeq(s, 1, Len(word))) = word
       THEN removeIgnoreCase(SubSeq(s, Len(word) + 1, Len(s)), word)
       ELSE <<s[1]>> \o removeIgnoreCase(Tail(s), word)

\* s.replace(/c+/g, " ")
RECURSIVE runsToSpace(_, _)
runsToSpace(s, c) ==
  IF Len(s) = 0 THEN s
  ELSE IF s[1] # c THEN <<s[1]>> \o runsToSpace(Tail(s), c)
  ELSE IF Len(s) > 1 /\ s[2] = c THEN runsToSpace(Tail(s), c)
  ELSE Space \o runsToSpace(Tail(s), c)

\* word.charAt(0).toUpperCase() + word.slice(1)
capitalize(word) ==
  IF Len(word) = 0 THEN word ELSE <<toUpperChar(word[1])>> \o Tail(word)

\* s.split(/[-_]/)
RECURSIVE splitWords(_)
splitWords(s) ==
  IF \A i \in DOMAIN s : s[i] \notin {"-", "_"} THEN <<s>>
  ELSE LET k == CHOOSE i \in DOMAIN s :
                  /\ s[i] \in {"-", "_"}
                  /\ \A j \in 1..(i - 1) : s[j] \notin {"-", "_"}
       IN  <<SubSeq(s, 1, k - 1)>> \o splitWords(SubSeq(s, k + 1, Len(s)))

\* words.join(sep)
RECURSIVE join(_, _)
join(words, sep) ==
  IF Len(words) = 0 THEN <<>>
  ELSE IF Len(words) = 1 THEN words[1]
  ELSE words[1] \o sep \o join(Tail(words), sep)

\* protocols.ts formatProtocolName: the table of display names
specialNames ==
  << <<<<"s","t","o","n","-","f","i">>, <<"S","t","o","n",".","f","i">>>>,
     <<<<"s","t","o","n",".","f","i">>, <<"S","t","o","n",".","f","i">>>>,
     <<<<"s","t","o","n","f","i">>, <<"S","t","o","n",".","f","i">>>>,
     <<<<"d","e","d","u","s","t">>, <<"D","e","D","u","s","t">>>>,
     <<<<"e","v","a","a">>, <<"E","V","A","A">>>>,
     <<<<"e","v","a","a","-","p","r","o","t","o","c","o","l">>, <<"E","V","A","A">>>>,
     <<<<"t","o","n","s","t","a","k","e","r","s">>, <<"T","o","n","s","t","a","k","e","r","s">>>>,
     <<<<"t","o","n","c","o">>, <<"T","o","n","c","o">>>>,
     <<<<"m","e","g","a","t","o","n","-","f","i","n","a","n","c","e">>, <<"M","e","g","a","t","o","n">>>>,
     <<<<"b","e","m","o">>, <<"B","e","m","o">>>>,
     <<<<"h","i","p","o">>, <<"H","i","p","o">>>>,
     <<<<"s","t","o","r","m","-","t","r","a","d","e">>, <<"S","t","o","r","m"," ","T","r","a","d","e">>>>,
     <<<<"m","o","r","p","h","o">>, <<"M","o","r","p","h","o">>>>,
     <<<<"e","u","l","e","r">>, <<"E","u","l","e","r">>>>,
     <<<<"a","f","f","l","u","e","n","t">>, <<"A","f","f","l","u","e","n","t">>>>,
     <<<<"c","u","r","v","e">>, <<"C","u","r","v","e">>>>,
     <<<<"c","u","r","v","e","-","d","e","x">>, <<"C","u","r","v","e">>>>,
     <<<<"f","i","v","a">>, <<"F","I","V","A">>>>,
     <<<<"d","a","o","l","a","m","a">>, <<"D","a","o","l","a","m","a">>>>,
     <<<<"s","w","a","p","-","c","o","f","f","e","e">>, <<"S","w","a","p",".","c","o","f","f","e","e">>>>,
     <<<<"s","w","a","p",".","c","o","f","f","e","e">>, <<"S","w","a","p",".","c","o","f","f","e","e">>>>,
     <<<<"s","w","a","p","c","o","f","f","e","e">>, <<"S","w","a","p",".","c","o","f","f","e","e">>>>,
     <<<<"c","a","r","b","o","n">>, <<"C","a","r","b","o","n">>>>,
     <<<<"c","a","r","b","o","n","-","d","e","f","i">>, <<"C","a","r","b","o","n">>>>,
     <<<<"c","a","r","b","o","n","d","e","f","i">>, <<"C","a","r","b","o","n">>>>,
     <<<<"b","a","n","c","o","r">>, <<"B","a","n","c","o","r">>>>,
     <<<<"s","n","a","p">>, <<"S","n","a","p">>>>,
     <<<<"s","n","a","p","-","d","e","x">>, <<"S","n","a","p">>>>,
     <<<<"s","n","a","p","d","e","x">>, <<"S","n","a","p">>>> >>

\* formatProtocolName: the display name of the lower-cased project if it has
\* one, else every word of the project capitalised
formatProtocolName(project) ==
  LET normalized == toLowerCase(project)
      Hits == {i \in DOMAIN specialNames : specialNames[i][1] = normalized}
      words == splitWords(project)
  IN  IF Hits # {} THEN specialNames[CHOOSE i \in Hits : TRUE][2]
      ELSE join([i \in DOMAIN words |-> capitalize(words[i])], Space)

(***************************************************************************)
(* A yield record (types/yields.ts YieldOpportunity).  sourceUrl is a      *)
(* display field and is left out; adapter and project are history fields   *)
(* that record which adapter emitted the record and under which raw        *)
(* protocol name.                                                          *)
(***************************************************************************)
AssetTypes == {"TON", "STABLE", "BTC"}
BucketKeys == {"TON", "STABLE", "BTC", "TON_USDT"}

YieldOpportunity(assetType, source, asset, poolMeta, apyBase, apyReward, apyTotal, tvlUsd, tonUsdt, adapter, project) ==
  [assetType |-> assetType, source |-> source, asset |-> asset,
   poolMeta |-> poolMeta, apyBase |-> apyBase, apyReward |-> apyReward,
   apyTotal |-> apyTotal, tvlUsd |-> tvlUsd, isTonUsdtPool |-> tonUsdt,
   adapter |-> adapter, project |-> project]

\* pools.filter(keep)
filter(pools, Keep(_)) == SelectSeq(pools, Keep)

\* sortByTvl: highest TVL first, equal TVLs in their earlier order
RECURSIVE sortByTvl(_)
sortByTvl(pools) ==
  IF Len(pools) <= 1 THEN pools
  ELSE LET init == sortByTvl(SubSeq(pools, 1, Len(pools) - 1))
           x    == pools[Len(pools)]
           k    == Cardinality({i \in DOMAIN init : init[i].tvlUsd >= x.tvlUsd})
       IN  SubSeq(init, 1, k) \o <<x>> \o SubSeq(init, k + 1, Len(init))

\* the bucket a record is pushed to
bucketOf(pool) == IF pool.isTonUsdtPool THEN "TON_USDT" ELSE pool.assetType

\* variant: a pair only has to belong to its category
isCorrelatedRecord_categoryOnly(pool) ==
  pairBelongsToCategory(pool.asset, pool.assetType)

\* the correlated-pair rule every adapter applies to a pair record
isCorrelatedRecord(pool) ==
  /\ pairBelongsToCategory(pool.asset, pool.assetType)
  /\ isCorrelatedPair(pool.asset, pool.assetType)

(***************************************************************************)
(* DefiLlama adapter (services/defillama.ts)                               *)
(***************************************************************************)
\* config.ts
minTvlUsd == 10000
chain     == <<"T","O","N">>

\* 10000 %, the sanity limit of filterValidPools, in APY units
APY_LIMIT == 1000000

filterTonPools(pools) ==
  LET OnTon(pool) == toUpperCase(pool.chain) = toUpperCase(chain)
  IN  filter(pools, OnTon)

\* cleanPoolMeta: drop "pool" and "vault", turn runs of - and _ into a
\* space, trim, capitalise; null when nothing is left
cleanPoolMeta(poolMeta) ==
  IF ~metaIsTruthy(poolMeta) THEN None
  ELSE LET cleaned ==
             trim(runsToSpace(runsToSpace(
               removeIgnoreCase(removeIgnoreCase(Get(poolMeta), <<"p","o","o","l">>), <<"v","a","u","l","t">>),
               "-"), "_"))
       IN  IF Len(cleaned) > 0 THEN Some(capitalize(cleaned)) ELSE None

transformPool(pool) ==
  LET apyBase   == orElse(pool.apyBase, 0)
      apyReward == pool.apyReward
      apyTotal  == orElse(pool.apy, apyBase + orElse(apyReward, 0))
  IN  YieldOpportunity(classifyAsset(pool.symbol),
                       formatProtocolName(pool.project),
                       pool.symbol,
                       cleanPoolMeta(pool.poolMeta),
                       apyBase, apyReward, apyTotal,
                       orElse(pool.tvlUsd, 0),
                       isTonUsdtPool(pool.symbol),
                       "DefiLlama", pool.project)

filterValidPools(pools) ==
  LET Valid(pool) == /\ pool.tvlUsd >= minTvlUsd
                     /\ pool.apyTotal > 0
                     /\ pool.apyTotal < APY_LIMIT
                     /\ ~isExcludedAsset(pool.asset)
  IN  filter(pools, Valid)

filterCorrelatedOnly(pools) ==
  LET Keep(pool) == IF pool.isTonUsdtPool THEN FALSE
                    ELSE IF isSingleAsset(pool.asset) THEN TRUE
                    ELSE isCorrelatedRecord(pool)
  IN  filter(pools, Keep)

filterTonUsdtOnly(pools) ==
  LET Keep(pool) == pool.isTonUsdtPool = TRUE
  IN  filter(pools, Keep)

\* groupByAssetType: one list per bucket, each sorted by TVL
groupByAssetType(pools) ==
  [key \in BucketKeys |->
     LET InBucket(pool) == bucketOf(pool) = key
     IN  sortByTvl(filter(pools, InBucket))]

SWAP_COFFEE_PROTOCOLS ==
  << <<"t","o","n","s","t","a","k","e","r","s">>, <<"b","e","m","o">>, <<"h","i","p","o">>, <<"k","t","o","n">>,
    <<"s","t","a","k","e","e">>, <<"t","o","r","c","h","-","f","i","n","a","n","c","e">>, <<"s","t","o","r","m","-","t","r","a","d","e">>, <<"s","t","o","n","-","f","i">>,
    <<"s","t","o","n",".","f","i">>, <<"s","t","o","n","f","i">>, <<"d","e","d","u","s","t">>, <<"s","w","a","p","-","c","o","f","f","e","e">>,
    <<"s","w","a","p",".","c","o","f","f","e","e">>, <<"t","o","n","c","o">>, <<"b","i","d","a","s","k">>, <<"m","o","o","n">>,
    <<"d","a","o","l","a","m","a">> >>

\* variant: the project name is compared as written, not lower-cased
isSwapCoffeeProject_asWritten(project) ==
  LET Covers(swapProj) == includes(project, swapProj)
  IN  SeqSome(SWAP_COFFEE_PROTOCOLS, Covers)

\* the protocol is one the Swap Coffee adapter covers
isSwapCoffeeProject(project) ==
  LET projectLower == toLowerCase(project)
      Covers(swapProj) == includes(projectLower, swapProj)
  IN  SeqSome(SWAP_COFFEE_PROTOCOLS, Covers)

\* pools.map(transformPool)
transformPools(pools) == [i \in DOMAIN pools |-> transformPool(pools[i])]

\* [...correlatedYields, ...tonUsdtYields]
allYields(validYields) ==
  filterCorrelatedOnly(validYields) \o filterTonUsdtOnly(validYields)

\* fetchDefiLlamaYields on an answer of fetchAllPools (a failed request
\* makes fetchAllPools throw, see FetchTonYieldsReject): the TON pools of
\* protocols Swap Coffee does not cover, transformed, validated, filtered
\* and grouped
fetchDefiLlamaYields(answer) ==
  LET NotCovered(pool) == ~isSwapCoffeeProject(pool.project)
  IN  groupByAssetType(allYields(filterValidPools(transformPools(
        filter(filterTonPools(answer.data), NotCovered)))))

(***************************************************************************)
(* Merkl adapter (services/merkl.ts)                                       *)
(***************************************************************************)
\* aprToApy: ((1 + apr/100/365)^365 - 1) * 100 on the APRs the feed offers,
\* rounded to the APY unit
aprToApy(apr) ==
  CASE apr = 500   -> 513
    [] apr = 1000  -> 1052
    [] apr = 50000 -> 1424610

\* s.replace(/^prefix\s+/i, ""), prefix given in lower case
stripPrefixWord(s, prefix) ==
  IF /\ Len(s) > Len(prefix)
     /\ toLowerCase(SubSeq(s, 1, Len(prefix))) = prefix
     /\ s[Len(prefix) + 1] = " "
  THEN trimStart(SubSeq(s, Len(prefix) + 1, Len(s)))
  ELSE s

\* s.replace(/\s+suffix$/i, ""), suffix given in lower case
stripSuffixWord(s, suffix) ==
  LET cut == Len(s) - Len(suffix) IN
  IF /\ cut >= 1
     /\ toLowerCase(SubSeq(s, cut + 1, Len(s))) = suffix
     /\ s[cut] = " "
  THEN trimEnd(SubSeq(s, 1, cut))
  ELSE s

MERKL_PREFIXES == << <<"c","u","r","v","e">>, <<"m","o","r","p","h","o">>, <<"e","u","l","e","r">>, <<"c","a","r","b","o","n">>, <<"s","n","a","p">> >>

\* the first protocol prefix the name starts with is removed
stripProtocolPrefix(s) ==
  LET Hits == {i \in DOMAIN MERKL_PREFIXES : stripPrefixWord(s, MERKL_PREFIXES[i]) # s}
  IN  IF Hits = {} THEN s
      ELSE stripPrefixWord(s, MERKL_PREFIXES[CHOOSE i \in Hits : \A j \in Hits : i <= j])

\* extractAssetSymbol: mainParameter when given, else the cleaned-up name
extractAssetSymbol(name, mainParameter) ==
  IF metaIsTruthy(mainParameter) THEN Get(mainParameter)
  ELSE trim(replaceAll(
         stripSuffixWord(stripSuffixWord(
           stripProtocolPrefix(stripPrefixWord(name, <<"p","r","o","v","i","d","e"," ","l","i","q","u","i","d","i","t","y"," ","t","o">>)),
           <<"p","o","o","l">>), <<"v","a","u","l","t">>),
         <<"/">>, <<"-">>))

TAC_CHAIN_ID == 239

transformMerklToYield(opp) ==
  LET asset == extractAssetSymbol(opp.name, opp.mainParameter)
      apy   == aprToApy(opp.apr)
  IN  YieldOpportunity(classifyAsset(asset), formatProtocolName(opp.protocol),
                       asset, Some(<<"M","e","r","k","l">>), 0, Some(apy), apy, opp.tvl,
                       FALSE, "Merkl", opp.protocol)

\* a field the provider's record lacks (undefined or null where an object or
\* a string is expected); of length two, so that it differs from every
\* Some(x) and from None by its length
Undefined == <<"undefined", "undefined">>

\* transformMerklToYield throws a TypeError: name.replace of a missing name
\* (when mainParameter does not stand in), protocol.name of a missing protocol
transformMerklToYieldThrows(opp) ==
  \/ opp.name = Undefined /\ ~metaIsTruthy(opp.mainParameter)
  \/ opp.protocol = Undefined

\* opportunities.map(transformMerklToYield)
transformMerkl(opportunities) ==
  [i \in DOMAIN opportunities |-> transformMerklToYield(opportunities[i])]

filterCorrelatedMerklYields(yields) ==
  LET Keep(pool) == IF isSingleAsset(pool.asset) THEN TRUE ELSE isCorrelatedRecord(pool)
  IN  filter(yields, Keep)

\* fetchMerklYields: the filtered records, or none when the request failed or
\* anything inside the try block threw
fetchMerklYields(answer) ==
  LET opportunities == answer.data
      Basic(opp) == opp.apr > 0 /\ opp.tvl > 10000 /\ opp.chainId = TAC_CHAIN_ID
  IN  IF answer.status = "failed" THEN <<>>
      ELSE IF SeqSome(filter(opportunities, Basic), transformMerklToYieldThrows) THEN <<>>
      ELSE filterCorrelatedMerklYields(transformMerkl(filter(opportunities, Basic)))

(***************************************************************************)
(* Morpho adapter (services/morpho.ts)                                     *)
(***************************************************************************)
\* rateToApy: the parsed rate times 100; an unparsable rate gives 0.  The
\* rate is given in units of 0.0001, so that times 100 it is in APY units.
rateToApy(rate) == IF IsNone(rate) THEN 0 ELSE Get(rate)

RECURSIVE pow10(_)
pow10(n) == IF n = 0 THEN 1 ELSE 10 * pow10(n - 1)

\* calculateTVL: lastTotalAssets / 10^decimals, in whole tokens
calculateTVL(vault) ==
  LET totalAssets == orZero(vault.lastTotalAssets)
  IN  IF totalAssets = 0 THEN 0 ELSE totalAssets \div pow10(vault.decimals)

\* the price table of estimateUSDValue, in cents
priceEstimates ==
  << <<<<"T","O","N">>, 175>>, <<<<"T","S","T","O","N">>, 175>>, <<<<"U","S","D","₮">>, 100>>, <<<<"U","S","D","T">>, 100>>,
     <<<<"U","S","D","C">>, 100>>, <<<<"W","E","T","H">>, 330000>>, <<<<"E","T","H">>, 330000>>,
     <<<<"W","B","T","C">>, 9500000>>, <<<<"C","B","B","T","C">>, 9500000>>, <<<<"L","B","T","C">>, 9500000>> >>

estimateUSDValue(tokenAmount, assetSymbol) ==
  LET upper == toUpperCase(assetSymbol)
      Hits  == {i \in DOMAIN priceEstimates : priceEstimates[i][1] = upper}
      price == IF Hits = {} THEN 0 ELSE priceEstimates[CHOOSE i \in Hits : TRUE][2]
  IN  (tokenAmount * price) \div 100

TEST_TOKENS == << <<"B","M","W">>, <<"L","A","D","A">>, <<"u","n","k","n","o","w","n">> >>

isTestToken(asset) ==
  LET Hit(test) == includes(toUpperCase(asset), toUpperCase(test))
  IN  SeqSome(TEST_TOKENS, Hit)

\* transformMetaMorpho: <<>> for a skipped vault, else the one record
transformMetaMorpho(vault) ==
  LET apy    == rateToApy(vault.rate)
      asset  == vault.assetSymbol
      tvlUsd == estimateUSDValue(calculateTVL(vault), asset)
  IN  IF apy < 1 THEN <<>>
      ELSE IF isTestToken(asset) THEN <<>>
      ELSE IF isEthAsset(asset) THEN <<>>
      ELSE IF tvlUsd < 100 THEN <<>>
      ELSE <<YieldOpportunity(classifyAsset(asset), <<"M","o","r","p","h","o">>, asset,
                              Some(vault.name), apy, None, apy, tvlUsd,
                              FALSE, "Morpho", <<"m","o","r","p","h","o">>)>>

\* lists.flat()
RECURSIVE flat(_)
flat(lists) == IF Len(lists) = 0 THEN <<>> ELSE lists[1] \o flat(Tail(lists))

\* list.map(f).filter(y => y !== null): the records of the entries that are
\* not skipped
flatMap(list, F(_)) == flat([i \in DOMAIN list |-> F(list[i])])

filterCorrelatedMorphoYields(pools) ==
  LET Keep(pool) == IF isSingleAsset(pool.asset) THEN TRUE ELSE isCorrelatedRecord(pool)
  IN  filter(pools, Keep)

\* queryMetaMorphos: the vaults, or none when the request failed
queryMetaMorphos(answer) == IF answer.status = "failed" THEN <<>> ELSE answer.data

fetchMorphoYields(answer) ==
  filterCorrelatedMorphoYields(flatMap(queryMetaMorphos(answer), transformMetaMorpho))

(***************************************************************************)
(* Euler adapter (services/euler.ts)                                       *)
(***************************************************************************)
\* supplyAPY is given in units of 10^21, that is 0.0001 %
SUPPLY_APY_PER_UNIT == 100

\* formatSupplyAPY: the 25-decimal fixed-point value as a percentage
formatSupplyAPY(supplyAPY) == supplyAPY \div SUPPLY_APY_PER_UNIT

\* The same conversion on the decimal digits of the bigint, which does not
\* fit the model's integers.  A number is written as digits * 10^exp with
\* neither leading nor trailing zero digits (zero has no digits, exp 0); up
\* to 15 significant digits this names one double.
Decimal(digits, exp) == [digits |-> digits, exp |-> exp]

Zeros(n) == [i \in 1..n |-> "0"]

RECURSIVE stripLeadingZeros(_)
stripLeadingZeros(digits) ==
  IF Len(digits) > 0 /\ digits[1] = "0" THEN stripLeadingZeros(Tail(digits)) ELSE digits

RECURSIVE stripTrailingZeros(_)
stripTrailingZeros(digits) ==
  IF Len(digits) > 0 /\ digits[Len(digits)] = "0"
  THEN stripTrailingZeros(SubSeq(digits, 1, Len(digits) - 1))
  ELSE digits

\* ethers.formatUnits(value, decimals) of a non-negative bigint: the whole
\* part, a point, and the fraction without trailing zeros (at least "0")
formatUnits(value, decimals) ==
  LET padded   == IF Len(value) <= decimals
                  THEN Zeros(decimals + 1 - Len(value)) \o value ELSE value
      whole    == SubSeq(padded, 1, Len(padded) - decimals)
      fraction == stripTrailingZeros(SubSeq(padded, Len(padded) - decimals + 1, Len(padded)))
  IN  whole \o <<".">> \o (IF Len(fraction) = 0 THEN <<"0">> ELSE fraction)

\* parseFloat of a string "whole.fraction" of digits
parseFloat(str) ==
  LET point    == CHOOSE i \in DOMAIN str : str[i] = "."
      whole    == SubSeq(str, 1, point - 1)
      fraction == stripTrailingZeros(SubSeq(str, point + 1, Len(str)))
      all      == stripLeadingZeros(whole \o fraction)
      digits   == stripTrailingZeros(all)
  IN  IF Len(digits) = 0 THEN Decimal(<<>>, 0)
      ELSE Decimal(digits, (Len(all) - Len(digits)) - Len(fraction))

SUPPLY_APY_DECIMALS == 25

\* formatSupplyAPY on the decimal digits of supplyAPY
formatSupplyAPYDigits(supplyAPY) == parseFloat(formatUnits(supplyAPY, SUPPLY_APY_DECIMALS))

\* estimateTVL: the token amount, no price applied
estimateTVL(balance, decimals) == balance \div pow10(decimals)

\* transformEulerVault: <<>> for a skipped vault and for one whose
\* transformation throws (assetSymbol missing: the TypeError of trim is
\* caught), else the one record
transformEulerVault(vault) ==
  IF IsNone(vault.supplyAPY) THEN <<>>
  ELSE LET apy      == formatSupplyAPY(Get(vault.supplyAPY))
           asset    == trim(vault.assetSymbol)
           tvlProxy == estimateTVL(vault.totalAssets, vault.assetDecimals)
       IN  IF apy < 10 THEN <<>>
           ELSE IF vault.assetSymbol = Undefined THEN <<>>
           ELSE IF isEthAsset(asset) THEN <<>>
           ELSE IF isTestToken(asset) THEN <<>>
           ELSE IF tvlProxy < 10 THEN <<>>
           ELSE <<YieldOpportunity(classifyAsset(asset), <<"E","u","l","e","r">>, asset, None,
                                   apy, None, apy, tvlProxy,
                                   FALSE, "Euler", <<"e","u","l","e","r">>)>>

filterCorrelatedEulerYields(pools) ==
  LET Keep(pool) == IF isSingleAsset(pool.asset) THEN TRUE ELSE isCorrelatedRecord(pool)
  IN  filter(pools, Keep)

\* fetchEulerYields: the records of the verified vaults, or none when the
\* provider cannot be reached
fetchEulerYields(answer) ==
  IF answer.status = "failed" THEN <<>>
  ELSE filterCorrelatedEulerYields(flatMap(answer.data, transformEulerVault))

(***************************************************************************)
(* YieldFi adapter (services/yieldfi.ts)                                   *)
(***************************************************************************)
fetchYieldFiPools(data) ==
  LET IsYieldFi(pool) == toLowerCase(pool.project) = <<"y","i","e","l","d","f","i">>
  IN  filter(data, IsYieldFi)

\* the token a YieldFi pool counts for: vyUSD, yUSD or none
yieldFiToken(pool) ==
  LET symbolLower == toLowerCase(pool.symbol)
      isVyUSD == includes(symbolLower, <<"v","y","u","s","d">>)
      isYUSD  == includes(symbolLower, <<"y","u","s","d">>) /\ ~isVyUSD
  IN  IF isVyUSD THEN Some(<<"v","y","U","S","D">>)
      ELSE IF isYUSD THEN Some(<<"y","U","S","D">>)
      ELSE None

\* aggregateYieldFiByToken: per token, in the order the tokens first occur,
\* the highest APY and the summed TVL
RECURSIVE aggregateYieldFiByToken(_)
aggregateYieldFiByToken(pools) ==
  IF Len(pools) = 0 THEN <<>>
  ELSE LET init  == aggregateYieldFiByToken(SubSeq(pools, 1, Len(pools) - 1))
           pool  == pools[Len(pools)]
           token == yieldFiToken(pool)
           Hits  == {i \in DOMAIN init : Some(init[i].symbol) = token}
       IN  IF IsNone(token) THEN init
           ELSE IF Hits = {}
           THEN Append(init, [symbol |-> Get(token),
                              apy |-> Max(0, orZero(pool.apy)),
                              tvl |-> orZero(pool.tvlUsd)])
           ELSE [i \in DOMAIN init |->
                   IF i \in Hits
                   THEN [symbol |-> init[i].symbol,
                         apy |-> Max(init[i].apy, orZero(pool.apy)),
                         tvl |-> init[i].tvl + orZero(pool.tvlUsd)]
                   ELSE init[i]]

transformYieldFiToken(symbol, apy, tvl) ==
  YieldOpportunity(classifyAsset(symbol), <<"Y","i","e","l","d","F","i">>, symbol, None,
                   apy, None, apy, tvl, FALSE, "YieldFi", <<"y","i","e","l","d","f","i">>)

\* fetchYieldFiYields: one record per token, or none when the request failed
fetchYieldFiYields(answer) ==
  LET aggregated == aggregateYieldFiByToken(fetchYieldFiPools(answer.data))
      Emit(entry) == IF entry.apy < 10 THEN <<>>
                     ELSE <<transformYieldFiToken(entry.symbol, entry.apy, entry.tvl)>>
  IN  IF answer.status = "failed" THEN <<>> ELSE flatMap(aggregated, Emit)

(***************************************************************************)
(* Ethena adapter (services/ethena.ts)                                     *)
(***************************************************************************)
fetchEthenaPools(data) ==
  LET IsSusde(pool) == /\ toLowerCase(pool.project) = <<"e","t","h","e","n","a","-","u","s","d","e">>
                       /\ toUpperCase(pool.symbol) = <<"S","U","S","D","E">>
  IN  filter(data, IsSusde)

\* aggregateEthena: the highest APY and the summed TVL of the pools
RECURSIVE aggregateEthena(_)
aggregateEthena(pools) ==
  IF Len(pools) = 0 THEN [apy |-> 0, tvl |-> 0]
  ELSE LET init == aggregateEthena(SubSeq(pools, 1, Len(pools) - 1))
           pool == pools[Len(pools)]
       IN  [apy |-> Max(init.apy, orZero(pool.apy)),
            tvl |-> init.tvl + orZero(pool.tvlUsd)]

transformEthenaToken(apy, tvl) ==
  YieldOpportunity(classifyAsset(<<"t","s","U","S","D","E">>), <<"E","t","h","e","n","a">>, <<"t","s","U","S","D","E">>, None,
                   apy, None, apy, tvl, FALSE, "Ethena", <<"e","t","h","e","n","a">>)

\* fetchEthenaYields: the one tsUSDE record, or none when the request failed
fetchEthenaYields(answer) ==
  LET pools == fetchEthenaPools(answer.data)
      aggregated == aggregateEthena(pools)
  IN  IF answer.status = "failed" THEN <<>>
      ELSE IF Len(pools) = 0 THEN <<>>
      ELSE IF aggregated.apy < 10 THEN <<>>
      ELSE <<transformEthenaToken(aggregated.apy, aggregated.tvl)>>

(***************************************************************************)
(* Swap Coffee adapter (services/swapcoffee.ts)                            *)
(***************************************************************************)
PROTOCOL_NAME_MAP ==
  << <<<<"t","o","n","s","t","a","k","e","r","s">>, <<"T","o","n","s","t","a","k","e","r","s">>>>,
     <<<<"b","e","m","o">>, <<"B","e","m","o">>>>,
     <<<<"b","e","m","o","_","v","2">>, <<"B","e","m","o">>>>,
     <<<<"k","t","o","n">>, <<"K","T","O","N">>>>,
     <<<<"h","i","p","o">>, <<"H","i","p","o">>>>,
     <<<<"s","t","a","k","e","e">>, <<"S","t","a","k","e","e">>>>,
     <<<<"t","o","r","c","h","_","f","i","n","a","n","c","e">>, <<"T","o","r","c","h"," ","F","i","n","a","n","c","e">>>>,
     <<<<"s","t","o","n","f","i">>, <<"S","t","o","n",".","f","i">>>>,
     <<<<"s","t","o","n","f","i","_","v","2">>, <<"S","t","o","n",".","f","i">>>>,
     <<<<"d","e","d","u","s","t">>, <<"D","e","D","u","s","t">>>>,
     <<<<"c","o","f","f","e","e">>, <<"S","w","a","p",".","c","o","f","f","e","e">>>>,
     <<<<"e","v","a","a">>, <<"E","V","A","A">>>>,
     <<<<"s","t","o","r","m","_","t","r","a","d","e">>, <<"S","t","o","r","m"," ","T","r","a","d","e">>>>,
     <<<<"d","a","o","_","l","a","m","a","_","v","a","u","l","t">>, <<"D","a","o","l","a","m","a">>>>,
     <<<<"m","o","o","n">>, <<"M","o","o","n">>>>,
     <<<<"t","o","n","c","o">>, <<"T","o","n","c","o">>>>,
     <<<<"b","i","d","a","s","k">>, <<"B","i","d","A","s","k">>>> >>

LST_PROTOCOLS == << <<"s","t","o","r","m","_","t","r","a","d","e">>, <<"k","t","o","n">>, <<"s","t","a","k","e","e">> >>

\* list.find(test): the first element that passes, if any
find(list, Test(_)) ==
  LET Hits == {i \in DOMAIN list : Test(list[i])}
  IN  IF Hits = {} THEN None
      ELSE Some(list[CHOOSE i \in Hits : \A j \in Hits : i <= j])

symbolsOf(pool) == [i \in DOMAIN pool.tokens |-> pool.tokens[i].symbol]

\* getAssetSymbol: the one token, the underlying asset of a liquid-staking
\* pool, or the token symbols joined by a hyphen
getAssetSymbol(pool) ==
  LET symbols  == symbolsOf(pool)
      protocol == toLowerCase(pool.protocol)
      NotSlp(s) == ~endsWith(s, <<"-","S","L","P">>)
      IsTon(s)  == toUpperCase(s) = TON_SYMBOL
      underlyingAsset == find(symbols, NotSlp)
      tonAsset == find(symbols, IsTon)
  IN  IF Len(symbols) = 1 THEN symbols[1]
      ELSE IF protocol \in Range(LST_PROTOCOLS)
              /\ includes(protocol, <<"s","t","o","r","m">>) /\ metaIsTruthy(underlyingAsset)
      THEN Get(underlyingAsset)
      ELSE IF protocol \in Range(LST_PROTOCOLS) /\ metaIsTruthy(tonAsset)
      THEN Get(tonAsset)
      ELSE join(symbols, Hyphen)

\* getPoolMeta: the derivative token of a two-token pool with TON or a
\* native token, else the AMM type, else null
getPoolMeta(pool) ==
  LET symbols == symbolsOf(pool)
      TonAt   == {i \in DOMAIN symbols : toUpperCase(symbols[i]) = TON_SYMBOL}
      tonIndex == IF TonAt = {} THEN 0 ELSE CHOOSE i \in TonAt : \A j \in TonAt : i <= j
  IN  IF Len(pool.tokens) = 2 /\ tonIndex # 0
      THEN Some(symbols[IF tonIndex = 1 THEN 2 ELSE 1])
      ELSE IF Len(pool.tokens) = 2 /\ pool.tokens[1].native
      THEN Some(symbols[2])
      ELSE IF Len(pool.tokens) = 2 /\ pool.tokens[2].native
      THEN Some(symbols[1])
      ELSE IF metaIsTruthy(pool.amm_type)
      THEN Some(<<"A","M","M",":"," ">> \o Get(pool.amm_type))
      ELSE None

protocolName(protocol) ==
  LET Hits == {i \in DOMAIN PROTOCOL_NAME_MAP : PROTOCOL_NAME_MAP[i][1] = protocol}
  IN  IF Hits = {} THEN protocol ELSE PROTOCOL_NAME_MAP[CHOOSE i \in Hits : TRUE][2]

\* transformSwapCoffeePool: <<>> for a skipped pool, else the one record
transformSwapCoffeePool(pool) ==
  LET UsdeToken(t) == includes(toUpperCase(t.symbol), <<"U","S","D","E">>)
      isEvaaUsde == pool.protocol = <<"e","v","a","a">> /\ SeqSome(pool.tokens, UsdeToken)
      asset      == getAssetSymbol(pool)
      apyReward  == orZero(pool.boost_apr)
  IN  IF ~pool.is_trusted THEN <<>>
      ELSE IF pool.tvl_usd < 100 THEN <<>>
      ELSE IF pool.apr < 5 /\ ~isEvaaUsde THEN <<>>
      ELSE IF isEthAsset(asset) THEN <<>>
      ELSE IF isExcludedAsset(asset) THEN <<>>
      ELSE IF pool.apr > 10000 /\ pool.tvl_usd < 10000 THEN <<>>
      ELSE <<YieldOpportunity(classifyAsset(asset), protocolName(pool.protocol),
                              asset, getPoolMeta(pool),
                              orZero(pool.lp_apr),
                              IF apyReward > 0 THEN Some(apyReward) ELSE None,
                              pool.apr, pool.tvl_usd,
                              isTonUsdtPool(asset),
                              "SwapCoffee", pool.protocol)>>

filterCorrelatedPools(pools) ==
  LET Keep(pool) == IF isSingleAsset(pool.asset) THEN TRUE
                    ELSE IF pool.isTonUsdtPool THEN TRUE
                    ELSE isCorrelatedRecord(pool)
  IN  filter(pools, Keep)

\* fetchSwapCoffeePools: the pools, or none when the request failed
fetchSwapCoffeePools(answer) == IF answer.status = "failed" THEN <<>> ELSE answer.data

fetchSwapCoffeeYields(answer) ==
  LET allPools == fetchSwapCoffeePools(answer)
      Kept(pool) == /\ toLowerCase(pool.protocol) # <<"e","v","a","a">>
                    /\ toLowerCase(pool.protocol) # <<"m","o","o","n">>
      pools == filter(allPools, Kept)
  IN  filterCorrelatedPools(flatMap(pools, transformSwapCoffeePool))


(***************************************************************************)
(* Adapter calls whose promise rejects: a TypeError outside any try block  *)
(***************************************************************************)
\* fetchDefiLlamaYields: classifyAsset(pool.symbol) in transformPool calls
\* toUpperCase on a missing symbol
fetchDefiLlamaYieldsThrows(answer) ==
  LET NotCovered(pool) == ~isSwapCoffeeProject(pool.project)
      NoSymbol(pool)   == pool.symbol = Undefined
  IN  SeqSome(filter(filterTonPools(answer.data), NotCovered), NoSymbol)

\* transformMetaMorpho: vault.rate.rate of a vault without rate; past the APY
\* threshold, classifyAsset(vault.asset.symbol) calls toUpperCase on a
\* missing symbol
transformMetaMorphoThrows(vault) ==
  \/ vault.rate = Undefined
  \/ vault.rate # Undefined /\ rateToApy(vault.rate) >= 1 /\ vault.assetSymbol = Undefined

\* fetchMorphoYields maps transformMetaMorpho outside any try block
fetchMorphoYieldsThrows(answer) ==
  SeqSome(queryMetaMorphos(answer), transformMetaMorphoThrows)

\* fetchSwapCoffeeYields: pool.protocol.toLowerCase() in the first filter, on a
\* pool without protocol, outside any try block
fetchSwapCoffeeYieldsThrows(answer) ==
  LET NoProtocol(pool) == pool.protocol = Undefined
  IN  SeqSome(fetchSwapCoffeePools(answer), NoProtocol)

\* Promise.all rejects as soon as one adapter promise rejects
fetchTonYieldsRejects(answers) ==
  \/ answers["DefiLlama"].status = "failed"
  \/ fetchDefiLlamaYieldsThrows(answers["DefiLlama"])
  \/ fetchMorphoYieldsThrows(answers["Morpho"])
  \/ fetchSwapCoffeeYieldsThrows(answers["SwapCoffee"])

(***************************************************************************)
(* The aggregator (services/defillama.ts fetchTonYields)                   *)
(***************************************************************************)
Adapters ==
  {"DefiLlama", "Merkl", "Morpho", "Euler", "YieldFi", "Ethena", "SwapCoffee"}

Pending      == [status |-> "pending", data |-> <<>>]
Failed       == [status |-> "failed", data |-> <<>>]
Answer(data) == [status |-> "ok", data |-> data]

EmptyBuckets == [key \in BucketKeys |-> <<>>]

\* fetchTonYields after Promise.all has resolved: the DefiLlama buckets, the
\* records of the other adapters pushed in the order Merkl, Morpho, Euler,
\* YieldFi, Ethena, Swap Coffee, and every bucket sorted by TVL again
fetchTonYields(answers) ==
  LET defiLlamaYields == fetchDefiLlamaYields(answers["DefiLlama"])
      pushed == fetchMerklYields(answers["Merkl"])
                  \o fetchMorphoYields(answers["Morpho"])
                  \o fetchEulerYields(answers["Euler"])
                  \o fetchYieldFiYields(answers["YieldFi"])
                  \o fetchEthenaYields(answers["Ethena"])
                  \o fetchSwapCoffeeYields(answers["SwapCoffee"])
  IN  [key \in BucketKeys |->
         LET InBucket(pool) == bucketOf(pool) = key
         IN  sortByTvl(defiLlamaYields[key] \o filter(pushed, InBucket))]

(***************************************************************************)
(* What the providers may answer: lists drawn from a feed per provider     *)
(***************************************************************************)
DefiLlamaPool(chainName, project, symbol, apy, apyBase, apyReward, tvlUsd, poolMeta) ==
  [chain |-> chainName, project |-> project, symbol |-> symbol, apy |-> apy,
   apyBase |-> apyBase, apyReward |-> apyReward, tvlUsd |-> tvlUsd,
   poolMeta |-> poolMeta]

DefiLlamaFeed ==
  << DefiLlamaPool(<<"T","O","N">>, <<"T","o","n","s","t","a","k","e","r","s">>, <<"T","S","T","O","N">>, Some(480), Some(480), None, Some(40000), None),
     DefiLlamaPool(<<"T","O","N">>, <<"t","o","n","s","t","a","k","e","r","s">>, <<"T","S","T","O","N">>, Some(480), Some(480), None, Some(200), None),
     DefiLlamaPool(<<"T","O","N">>, <<"e","v","a","a","-","p","r","o","t","o","c","o","l">>, <<"U","S","D","T">>, Some(480), Some(430), Some(50), Some(1700000), Some(<<"m","a","i","n","-","p","o","o","l">>)),
     DefiLlamaPool(<<"T","O","N">>, <<"a","f","f","l","u","e","n","t">>, <<"T","O","N">>, Some(1500000), None, None, Some(50000), None),
     DefiLlamaPool(<<"T","o","n">>, <<"m","e","g","a","t","o","n","-","f","i","n","a","n","c","e">>, <<"T","O","N","-","U","S","D","T">>, None, Some(900), Some(300), Some(90000), Some(<<>>)),
     DefiLlamaPool(<<"T","O","N">>, <<"a","f","f","l","u","e","n","t">>, <<"U","S","D","T","-","T","U","S","D">>, Some(700), None, None, Some(60000), None),
     DefiLlamaPool(<<"E","t","h","e","r","e","u","m">>, <<"a","a","v","e","-","v","3">>, <<"U","S","D","C">>, Some(400), Some(400), None, Some(9000000), None) >>

MerklOpportunity(name, mainParameter, apr, tvl, chainId, protocol) ==
  [name |-> name, mainParameter |-> mainParameter, apr |-> apr, tvl |-> tvl,
   chainId |-> chainId, protocol |-> protocol]

MerklFeed ==
  << MerklOpportunity(<<"P","r","o","v","i","d","e"," ","l","i","q","u","i","d","i","t","y"," ","t","o"," ","U","S","D","T","/","U","S","D","C"," ","P","o","o","l">>, None, 50000, 20000, TAC_CHAIN_ID, <<"c","u","r","v","e","-","d","e","x">>),
     MerklOpportunity(<<"C","u","r","v","e"," ","T","O","N","-","w","B","T","C">>, None, 1000, 20000, TAC_CHAIN_ID, <<"c","u","r","v","e">>),
     MerklOpportunity(<<"L","e","n","d"," ","U","S","D","T">>, Some(<<"U","S","D","T">>), 500, 15000, 1, <<"e","u","l","e","r">>) >>

MorphoMetaMorpho(name, assetSymbol, rate, lastTotalAssets, decimals) ==
  [name |-> name, assetSymbol |-> assetSymbol, rate |-> rate,
   lastTotalAssets |-> lastTotalAssets, decimals |-> decimals]

MorphoFeed ==
  << MorphoMetaMorpho(<<"R","e","7"," ","T","O","N">>, <<"T","O","N">>, Some(341), Some(2000000), 2),
     MorphoMetaMorpho(<<"T","e","s","t">>, <<"B","M","W">>, Some(900), Some(5000000), 2) >>

EulerVault(assetSymbol, supplyAPY, totalAssets, assetDecimals) ==
  [assetSymbol |-> assetSymbol, supplyAPY |-> supplyAPY,
   totalAssets |-> totalAssets, assetDecimals |-> assetDecimals]

EulerFeed ==
  << EulerVault(<<" ","U","S","D","T"," ">>, Some(81000), 500000, 1),
     EulerVault(<<"T","O","N">>, Some(500), 900000, 1),
     EulerVault(<<"W","B","T","C">>, Some(48000), 700000, 1) >>

YieldFiFeed ==
  << DefiLlamaPool(<<"E","t","h","e","r","e","u","m">>, <<"y","i","e","l","d","f","i">>, <<"y","U","S","D">>, Some(1200), None, None, Some(30000), None),
     DefiLlamaPool(<<"A","r","b","i","t","r","u","m">>, <<"Y","i","e","l","d","F","i">>, <<"V","Y","U","S","D">>, Some(1500), None, None, Some(25000), None) >>

EthenaFeed ==
  << DefiLlamaPool(<<"E","t","h","e","r","e","u","m">>, <<"e","t","h","e","n","a","-","u","s","d","e">>, <<"s","U","S","D","e">>, Some(700), None, None, Some(5000000), None),
     DefiLlamaPool(<<"E","t","h","e","r","e","u","m">>, <<"e","t","h","e","n","a","-","u","s","d","e">>, <<"U","S","D","e">>, Some(900), None, None, Some(8000000), None) >>

Token(symbol, native) == [symbol |-> symbol, native |-> native]

SwapCoffeePool(protocol, is_trusted, tokens, tvl_usd, apr, lp_apr, boost_apr, amm_type) ==
  [protocol |-> protocol, is_trusted |-> is_trusted, tokens |-> tokens,
   tvl_usd |-> tvl_usd, apr |-> apr, lp_apr |-> lp_apr,
   boost_apr |-> boost_apr, amm_type |-> amm_type]

SwapCoffeeFeed ==
  << SwapCoffeePool(<<"t","o","n","s","t","a","k","e","r","s">>, TRUE, <<Token(<<"t","s","T","O","N">>, FALSE)>>, 200, 480, Some(480), None, None),
     SwapCoffeePool(<<"t","o","n","s","t","a","k","e","r","s">>, TRUE, <<Token(<<"t","s","T","O","N">>, FALSE)>>, 100, 470, Some(470), None, None),
     SwapCoffeePool(<<"t","o","n","s","t","a","k","e","r","s">>, TRUE, <<Token(<<"t","s","T","O","N">>, FALSE)>>, 50, 460, Some(460), None, None),
     SwapCoffeePool(<<"d","e","d","u","s","t">>, TRUE, <<Token(<<"U","S","D","T">>, FALSE), Token(<<"U","S","D","C">>, FALSE)>>, 20000, 1500000, Some(1000000), Some(500000), Some(<<"s","t","a","b","l","e">>)),
     SwapCoffeePool(<<"s","t","o","n","f","i","_","v","2">>, TRUE, <<Token(<<"T","O","N">>, TRUE), Token(<<"U","S","D","T">>, FALSE)>>, 30000, 2000, Some(2000), None, Some(<<"c","o","n","s","t","a","n","t","_","p","r","o","d","u","c","t">>)),
     SwapCoffeePool(<<"d","e","d","u","s","t">>, TRUE, <<Token(<<"T","O","N">>, TRUE), Token(<<"S","T","O","N">>, FALSE)>>, 80000, 3000, Some(3000), None, None),
     SwapCoffeePool(<<"e","v","a","a">>, FALSE, <<Token(<<"U","S","D","e">>, FALSE)>>, 70000, 600, None, None, None) >>

Feed(adapter) ==
  CASE adapter = "DefiLlama"  -> DefiLlamaFeed
    [] adapter = "Merkl"      -> MerklFeed
    [] adapter = "Morpho"     -> MorphoFeed
    [] adapter = "Euler"      -> EulerFeed
    [] adapter = "YieldFi"    -> YieldFiFeed
    [] adapter = "Ethena"     -> EthenaFeed
    [] adapter = "SwapCoffee" -> SwapCoffeeFeed

\* the lists of at most n distinct positions of a feed of the given length
RECURSIVE listsOf(_, _)
listsOf(length, n) ==
  IF n <= 0 THEN {<<>>}
  ELSE LET shorter == listsOf(length, n - 1)
           Longer  == {q \in shorter \X (1..length) :
                         Len(q[1]) = n - 1 /\ q[2] \notin Range(q[1])}
       IN  shorter \cup {Append(q[1], q[2]) : q \in Longer}

\* the answers of at most n records a provider may give
Answers(adapter, n) ==
  {[i \in DOMAIN l |-> Feed(adapter)[l[i]]] : l \in listsOf(Len(Feed(adapter)), n)}

\* the number of records in the answers received so far
RECURSIVE recordCount(_, _)
recordCount(answers, adapters) ==
  IF adapters = {} THEN 0
  ELSE LET a == CHOOSE x \in adapters : TRUE
       IN  Len(answers[a].data) + recordCount(answers, adapters \ {a})

(***************************************************************************)
(* SpecAgg: one run of fetchTonYields after another; the seven adapters    *)
(* settle in any order, each with an answer or a failed request            *)
(***************************************************************************)
MaxAnswerRecords == 1

\* fetchTonYields is called: the seven adapter calls are started together
FetchTonYieldsStart ==
  /\ pc \in {"idle", "done", "rejected"}
  /\ pc' = "awaiting"
  /\ raw' = [a \in Adapters |-> Pending]
  /\ buckets' = EmptyBuckets
  /\ UNCHANGED <<idVars, histVars, callVars, runVars>>

\* the provider of an adapter answers
AdapterAnswers(adapter, data) ==
  /\ pc = "awaiting"
  /\ raw[adapter].status = "pending"
  /\ recordCount(raw, Adapters) + Len(data) <= MaxAnswerRecords
  /\ raw' = [raw EXCEPT ![adapter] = Answer(data)]
  /\ UNCHANGED <<pc, buckets, idVars, histVars, callVars, runVars>>

\* the request of an adapter fails (network error, HTTP error status or an
\* unreadable body)
AdapterFails(adapter) ==
  /\ pc = "awaiting"
  /\ raw[adapter].status = "pending"
  /\ raw' = [raw EXCEPT ![adapter] = Failed]
  /\ UNCHANGED <<pc, buckets, idVars, histVars, callVars, runVars>>

\* fetchAllPools threw (or a transformation outside a try block did): the
\* adapter has no handler, its promise rejects, Promise.all rejects and so
\* does fetchTonYields
FetchTonYieldsReject ==
  /\ pc = "awaiting"
  /\ fetchTonYieldsRejects(raw)
  /\ pc' = "rejected"
  /\ UNCHANGED <<raw, buckets, idVars, histVars, callVars, runVars>>

\* a variant of FetchTonYieldsMerge that pushes the adapters' records in the
\* order in which the calls completed
FetchTonYieldsMerge_completionOrder ==
  LET defiLlamaYields == fetchDefiLlamaYields(raw["DefiLlama"])
      Records(a) ==
        CASE a = "Merkl"      -> fetchMerklYields(raw[a])
          [] a = "Morpho"     -> fetchMorphoYields(raw[a])
          [] a = "Euler"      -> fetchEulerYields(raw[a])
          [] a = "YieldFi"    -> fetchYieldFiYields(raw[a])
          [] a = "Ethena"     -> fetchEthenaYields(raw[a])
          [] a = "SwapCoffee" -> fetchSwapCoffeeYields(raw[a])
          [] OTHER            -> <<>>
      pushed == flat([i \in DOMAIN settled |-> Records(settled[i])])
  IN  /\ pc = "awaiting"
      /\ \A a \in Adapters : raw[a].status # "pending"
      /\ ~fetchTonYieldsRejects(raw)
      /\ buckets' = [key \in BucketKeys |->
                       LET InBucket(pool) == bucketOf(pool) = key
                       IN  sortByTvl(defiLlamaYields[key] \o filter(pushed, InBucket))]
      /\ pc' = "done"
      /\ UNCHANGED <<raw, idVars, histVars, callVars, runVars>>

\* Promise.all resolved: merge, sort, return
FetchTonYieldsMerge ==
  /\ pc = "awaiting"
  /\ \A a \in Adapters : raw[a].status # "pending"
  /\ ~fetchTonYieldsRejects(raw)
  /\ buckets' = fetchTonYields(raw)
  /\ pc' = "done"
  /\ UNCHANGED <<raw, idVars, histVars, callVars, runVars>>

NextAgg ==
  \/ FetchTonYieldsStart
  \/ \E a \in Adapters : \E data \in Answers(a, MaxAnswerRecords) : AdapterAnswers(a, data)
  \/ \E a \in Adapters : AdapterFails(a)
  \/ FetchTonYieldsReject
  \/ FetchTonYieldsMerge

(***************************************************************************)
(* SpecMerge: fetchTonYields on every combination of answers of the seven  *)
(* providers with a bounded number of records in all                       *)
(***************************************************************************)
MaxRawTotal == 3

NextMerge == FetchTonYieldsMerge


(***************************************************************************)
(* Presentation of the buckets: protocol groups and the top list           *)
(***************************************************************************)
RECURSIVE totalTvl(_)
totalTvl(yields) ==
  IF yields = <<>> THEN 0
  ELSE totalTvl(SubSeq(yields, 1, Len(yields) - 1)) + yields[Len(yields)].tvlUsd

ProtocolGroup(protocol, yields) == [protocol |-> protocol, yields |-> yields]

\* the Map of groupByProtocol / organizeByProtocol as a list in insertion
\* order: one group per source name, its records in the order of the list,
\* then sorted by TVL
protocolMap(yields) ==
  LET protocols == uniqueInOrder([i \in DOMAIN yields |-> yields[i].source])
  IN  [g \in DOMAIN protocols |->
         LET OfProtocol(pool) == pool.source = protocols[g]
         IN  ProtocolGroup(protocols[g], sortByTvl(filter(yields, OfProtocol)))]

\* groups.sort by the groups' total TVL, highest first (stable)
RECURSIVE sortGroupsByTotalTvl(_)
sortGroupsByTotalTvl(groups) ==
  IF Len(groups) <= 1 THEN groups
  ELSE LET init == sortGroupsByTotalTvl(SubSeq(groups, 1, Len(groups) - 1))
           x    == groups[Len(groups)]
           k    == Cardinality({i \in DOMAIN init :
                                  totalTvl(init[i].yields) >= totalTvl(x.yields)})
       IN  SubSeq(init, 1, k) \o <<x>> \o SubSeq(init, k + 1, Len(init))

\* variant: the groups stay in the order in which their sources first appear
groupByProtocol_insertionOrder(yields) == protocolMap(yields)

groupByProtocol(yields) == sortGroupsByTotalTvl(protocolMap(yields))

organizeByProtocol(yields) == sortGroupsByTotalTvl(protocolMap(yields))


\* sortByApy: a stable sort, highest apyTotal first
RECURSIVE sortByApy(_)
sortByApy(pools) ==
  IF Len(pools) <= 1 THEN pools
  ELSE LET init == sortByApy(SubSeq(pools, 1, Len(pools) - 1))
           x    == pools[Len(pools)]
           k    == Cardinality({i \in DOMAIN init : init[i].apyTotal >= x.apyTotal})
       IN  SubSeq(init, 1, k) \o <<x>> \o SubSeq(init, k + 1, Len(init))

\* variant: the risk-flagged bucket takes part as well
getTopYields_withTonUsdt(grouped, limit) ==
  sliceHead(sortByApy(grouped["TON"] \o grouped["STABLE"] \o grouped["BTC"]
                        \o grouped["TON_USDT"]), limit)

\* getTopYields for a limit of zero or more
getTopYields(grouped, limit) ==
  LET allTop == grouped["TON"] \o grouped["STABLE"] \o grouped["BTC"]
  IN  sliceHead(sortByApy(allTop), limit)

(***************************************************************************)
(* SpecTop: fetchTonYields as in SpecMerge, then getTopYields on the       *)
(* returned buckets with every limit up to MaxLimit                        *)
(***************************************************************************)
MaxLimit == 3

GetTopYields(limit) ==
  /\ pc = "done"
  /\ call' = [fn |-> "getTopYields", arg |-> limit, result |-> getTopYields(buckets, limit)]
  /\ UNCHANGED <<idVars, histVars, aggVars, euler, settled, fmt, runVars>>

NextTop ==
  \/ FetchTonYieldsMerge
  \/ \E limit \in 0..MaxLimit : GetTopYields(limit)


(***************************************************************************)
(* SpecOverlap: two pipeline runs (the cron post and a /yields command)    *)
(* each call saveApySnapshot once; their loads and saves interleave freely *)
(***************************************************************************)
Runs == {"cron", "command"}

IdleRun == [pc |-> "idle", pool |-> NoPool, date |-> 0, apy |-> 0, history |-> <<>>,
            writeOk |-> FALSE, order |-> 0, sawOther |-> FALSE]

\* the run has stored a history
HasSaved(r) == runs[r].pc = "done" /\ runs[r].writeOk

\* saveApySnapshot(pool) is called in run r
OverlapSaveBegin(r, pool) ==
  /\ runs[r].pc = "idle"
  /\ runs' = [runs EXCEPT ![r] = [IdleRun EXCEPT !.pc = "load", !.pool = pool]]
  /\ UNCHANGED <<idVars, histVars, aggVars, callVars, post>>

\* loadPoolHistory has answered run r; today's snapshot is upserted, the
\* history sorted and capped
OverlapSaveLoaded(r, readOk) ==
  /\ runs[r].pc = "load"
  /\ LET history == loadPoolHistory(poolIdOf(runs[r].pool), readOk) IN
       runs' = [runs EXCEPT ![r] =
                  [@ EXCEPT !.pc = "save", !.date = today, !.apy = runs[r].pool.apyTotal,
                            !.history = upsertSnapshot(history, today, runs[r].pool.apyTotal),
                            !.sawOther = \E o \in Runs \ {r} : HasSaved(o)]]
  /\ UNCHANGED <<idVars, histVars, aggVars, callVars, post>>

\* savePoolHistory has answered run r
OverlapSaveSaved(r, writeOk) ==
  /\ runs[r].pc = "save"
  /\ LET poolId == poolIdOf(runs[r].pool) IN
       /\ store' = savePoolHistory(poolId, runs[r].history, writeOk)
       /\ recorded' = IF writeOk
                      THEN [recorded EXCEPT ![poolId] = @ \cup {runs[r].date}]
                      ELSE recorded
  /\ runs' = [runs EXCEPT ![r] =
                [@ EXCEPT !.pc = "done", !.writeOk = writeOk,
                          !.order = 1 + Cardinality({o \in Runs : runs[o].pc = "done"})]]
  /\ UNCHANGED <<today, op, idVars, aggVars, callVars, post>>

NextOverlap ==
  \/ \E r \in Runs, pool \in HistPools : OverlapSaveBegin(r, pool)
  \/ \E r \in Runs, readOk \in BOOLEAN : OverlapSaveLoaded(r, readOk)
  \/ \E r \in Runs, writeOk \in BOOLEAN : OverlapSaveSaved(r, writeOk)
  \/ Tick


(***************************************************************************)
(* SpecRun: one pipeline run, postDailyYields: fetchTonYields as in        *)
(* SpecAgg, then formatChannelMessage and sendToChannel                    *)
(***************************************************************************)
IdlePost == [pc |-> "idle", writes |-> 0]

\* a variant of totalYields that counts the TON-USDT bucket too
totalYields_allBuckets ==
  Len(buckets["TON"]) + Len(buckets["STABLE"]) + Len(buckets["BTC"]) + Len(buckets["TON_USDT"])

\* yields.TON.length + yields.STABLE.length + yields.BTC.length
totalYields == Len(buckets["TON"]) + Len(buckets["STABLE"]) + Len(buckets["BTC"])

\* allPools of formatChannelMessage
allPools == buckets["TON"] \o buckets["STABLE"] \o buckets["BTC"] \o buckets["TON_USDT"]

\* fetchTonYields has rejected: the error is logged and thrown again
PostDailyYieldsCatch ==
  /\ pc = "rejected" /\ post.pc = "idle"
  /\ post' = [post EXCEPT !.pc = "failed"]
  /\ UNCHANGED <<idVars, histVars, aggVars, callVars, runs>>

\* a variant of PostDailyYieldsSkip that goes on to format and post
PostDailyYieldsSkip_posts ==
  /\ pc = "done" /\ post.pc = "idle"
  /\ totalYields = 0
  /\ post' = [post EXCEPT !.pc = "averages"]
  /\ UNCHANGED <<idVars, histVars, aggVars, callVars, runs>>

\* no record in TON, STABLE and BTC: nothing is posted
PostDailyYieldsSkip ==
  /\ pc = "done" /\ post.pc = "idle"
  /\ totalYields = 0
  /\ post' = [post EXCEPT !.pc = "skipped"]
  /\ UNCHANGED <<idVars, histVars, aggVars, callVars, runs>>

\* formatChannelMessage(yields) is called
FormatChannelMessageStart ==
  /\ pc = "done" /\ post.pc = "idle"
  /\ totalYields # 0
  /\ post' = [post EXCEPT !.pc = "averages"]
  /\ UNCHANGED <<idVars, histVars, aggVars, callVars, runs>>

\* await calculateAll7DayAverages(allPools): reads of the history store
CalculateAll7DayAverages ==
  /\ post.pc = "averages"
  /\ post' = [post EXCEPT !.pc = "snapshots"]
  /\ UNCHANGED <<idVars, histVars, aggVars, callVars, runs>>

\* variant: the snapshots are saved as soon as the run has started
SaveAllApySnapshots_early ==
  /\ post.pc = "idle" /\ pc # "idle" /\ post.writes = 0
  /\ post' = [post EXCEPT !.writes = @ + 1]
  /\ UNCHANGED <<idVars, histVars, aggVars, callVars, runs>>

\* await saveAllApySnapshots(allPools): one saveApySnapshot, hence one
\* savePoolHistory, per pool
SaveAllApySnapshots ==
  /\ post.pc = "snapshots"
  /\ post' = [post EXCEPT !.pc = "tvl", !.writes = @ + Len(allPools)]
  /\ UNCHANGED <<idVars, histVars, aggVars, callVars, runs>>

\* await fetchTonTVL(), and when it is positive calculateTvlChange and
\* saveTvlSnapshot (one write of the TVL history); the message is then built
FetchTonTVL(available) ==
  /\ post.pc = "tvl"
  /\ post' = [post EXCEPT !.pc = "sending", !.writes = @ + (IF available THEN 1 ELSE 0)]
  /\ UNCHANGED <<idVars, histVars, aggVars, callVars, runs>>

\* await sendToChannel(bot, message): sent, or the error is thrown again
SendToChannel(sent) ==
  /\ post.pc = "sending"
  /\ post' = [post EXCEPT !.pc = IF sent THEN "posted" ELSE "failed"]
  /\ UNCHANGED <<idVars, histVars, aggVars, callVars, runs>>

\* postDailyYields is called and calls fetchTonYields
PostDailyYieldsStart == pc = "idle" /\ FetchTonYieldsStart

\* the steps that need no answer of a provider
ProgramStep ==
  \/ PostDailyYieldsStart
  \/ FetchTonYieldsReject
  \/ FetchTonYieldsMerge
  \/ PostDailyYieldsCatch
  \/ PostDailyYieldsSkip
  \/ FormatChannelMessageStart
  \/ CalculateAll7DayAverages
  \/ SaveAllApySnapshots
  \/ \E available \in BOOLEAN : FetchTonTVL(available)
  \/ \E sent \in BOOLEAN : SendToChannel(sent)

NextRun ==
  \/ ProgramStep
  \/ \E a \in Adapters : \E data \in Answers(a, MaxAnswerRecords) : AdapterAnswers(a, data)
  \/ \E a \in Adapters : AdapterFails(a)


(***************************************************************************)
(* SpecMalformed: an adapter is run on a provider response in which        *)
(* exactly one record is malformed                                         *)
(***************************************************************************)
MaxGoodRecords == 2

MalformedAdapters == {"DefiLlama", "Merkl", "Morpho", "SwapCoffee"}

\* a record of the feed with a required field missing or a numeric field
\* that does not parse
Malformed(adapter) ==
  LET feed == Range(Feed(adapter))
  IN  CASE adapter = "DefiLlama" ->
             {[p EXCEPT !.symbol = Undefined] : p \in feed}
               \cup {[p EXCEPT !.tvlUsd = None] : p \in feed}
        [] adapter = "Merkl" ->
             {[o EXCEPT !.name = Undefined, !.mainParameter = None] : o \in feed}
               \cup {[o EXCEPT !.protocol = Undefined] : o \in feed}
        [] adapter = "Morpho" ->
             {[v EXCEPT !.assetSymbol = Undefined] : v \in feed}
               \cup {[v EXCEPT !.rate = Undefined] : v \in feed}
               \cup {[v EXCEPT !.rate = None] : v \in feed}
               \cup {[v EXCEPT !.lastTotalAssets = None] : v \in feed}
        [] adapter = "SwapCoffee" ->
             {[p EXCEPT !.protocol = Undefined] : p \in feed}

InsertAt(list, at, x) == SubSeq(list, 1, at - 1) \o <<x>> \o SubSeq(list, at, Len(list))

\* what the adapter's promise settles to on a provider response
adapterOutcome(adapter, response) ==
  LET answer   == Answer(response)
      rejected == [status |-> "rejected", records |-> <<>>]
  IN  CASE adapter = "DefiLlama" ->
             IF fetchDefiLlamaYieldsThrows(answer) THEN rejected
             ELSE [status |-> "returned", records |-> fetchDefiLlamaYields(answer)]
        [] adapter = "Merkl" ->
             [status |-> "returned", records |-> fetchMerklYields(answer)]
        [] adapter = "Morpho" ->
             IF fetchMorphoYieldsThrows(answer) THEN rejected
             ELSE [status |-> "returned", records |-> fetchMorphoYields(answer)]
        [] adapter = "SwapCoffee" ->
             IF fetchSwapCoffeeYieldsThrows(answer) THEN rejected
             ELSE [status |-> "returned", records |-> fetchSwapCoffeeYields(answer)]

\* the adapter runs on the well-formed records good with the malformed
\* record bad at place at
FetchWithMalformed(adapter, good, bad, at) ==
  /\ call = NoCall
  /\ call' = [fn |-> "fetchYields",
              arg |-> [adapter |-> adapter, good |-> good, bad |-> bad, at |-> at],
              result |-> adapterOutcome(adapter, InsertAt(good, at, bad))]
  /\ UNCHANGED <<idVars, histVars, aggVars, euler, settled, fmt, runVars>>

NextMalformed ==
  \E adapter \in MalformedAdapters :
    \E good \in Answers(adapter, MaxGoodRecords) :
      \E bad \in Malformed(adapter), at \in 1..(Len(good) + 1) :
        FetchWithMalformed(adapter, good, bad, at)

(***************************************************************************)
(* SpecClassify: calls of classifyAsset and isCorrelatedPair on symbols    *)
(* built from fragments in every case and with every separator, and on     *)
(* every entry of the correlated tables in both orders                     *)
(***************************************************************************)
SymbolFragments ==
  { <<>>, <<"T","O","N">>, <<"t","s","T","O","N">>, <<"U","S","D","T">>, <<"U","S","D","₮">>, <<"u","s","d","c">>, <<"c","b","B","T","C">>, <<"M","-","B","T","C">>,
    <<"w","b","t","c">>, <<"N","O","T">>, <<"X">>, <<"U","S","D","0","+","+">>, <<"s","t","U","S","R">> }

SymbolSeparators == { <<>>, <<"-">>, <<"/">>, <<".">> }

ClassifySymbols ==
  {a \o sep \o b : a \in SymbolFragments, sep \in SymbolSeparators, b \in SymbolFragments}

\* "A-B" and "B-A" for every entry [A, B] of the category's table
TablePairSymbols(assetType) ==
  LET table == CORRELATED_PAIRS(assetType)
  IN  {table[i][1] \o Hyphen \o table[i][2] : i \in DOMAIN table}
        \cup {table[i][2] \o Hyphen \o table[i][1] : i \in DOMAIN table}

OtherPairSymbols ==
  { <<"T","O","N","N","E","L","-","T","S","T","O","N">>, <<"T","S","T","O","N","-","T","O","N","N","E","L">>, <<"S","T","O","N","-","T","O","N">>, <<"T","O","N","-","U","S","D","T">>, <<"T","O","N">>,
    <<"t","s","T","O","N","-","T","O","N">>, <<"T","O","N","/","T","S","T","O","N">>, <<"T","S","U","S","D","E","-","U","S","D","T","-","V","A","U","L","T","7">>, <<"T","O","N","-","V","A","U","L","T","-","7">>,
    <<"T","O","N","-","T","S","T","O","N","-","T","S","U","S","D","E","-","U","S","D","T","-","X","A","U","T","0">>, <<"U","S","D","T","-","X","U","S","D","C">>, <<"W","B","T","C","-","B","T","C","B">> }

PairSymbols == UNION {TablePairSymbols(assetType) : assetType \in AssetTypes} \cup OtherPairSymbols

ClassifyAsset(symbol) ==
  /\ call = NoCall
  /\ call' = [fn |-> "classifyAsset", arg |-> [symbol |-> symbol],
              result |-> classifyAsset(symbol)]
  /\ UNCHANGED <<idVars, histVars, aggVars, euler, settled, fmt, runVars>>

IsCorrelatedPair(symbol, assetType) ==
  /\ call = NoCall
  /\ call' = [fn |-> "isCorrelatedPair", arg |-> [symbol |-> symbol, assetType |-> assetType],
              result |-> isCorrelatedPair(symbol, assetType)]
  /\ UNCHANGED <<idVars, histVars, aggVars, euler, settled, fmt, runVars>>

\* pair symbols of one to MaxParts tokens, joined by '-' or by '/'
MaxParts == 4

ParseTokens == { <<"t","s","T","O","N">>, <<"T","O","N">>, <<"t","o","n">>, <<"U","S","D","T">>, <<"V","a","u","l","t","7">>, <<"7">>, <<"R","L","P">> }

RECURSIVE joinParts(_, _)
joinParts(parts, sep) ==
  IF Len(parts) = 0 THEN <<>>
  ELSE IF Len(parts) = 1 THEN parts[1]
  ELSE parts[1] \o sep \o joinParts(Tail(parts), sep)

ParseSymbols ==
  {joinParts(parts, sep) : parts \in UNION {[1..n -> ParseTokens] : n \in 1..MaxParts},
                           sep \in {<<"-">>, <<"/">>}}

ParseLpPair(symbol) ==
  /\ call = NoCall
  /\ call' = [fn |-> "parseLpPair", arg |-> [symbol |-> symbol], result |-> parseLpPair(symbol)]
  /\ UNCHANGED <<idVars, histVars, aggVars, euler, settled, fmt, runVars>>

NextClassify ==
  \/ \E symbol \in ClassifySymbols : ClassifyAsset(symbol)
  \/ \E symbol \in PairSymbols, assetType \in AssetTypes : IsCorrelatedPair(symbol, assetType)
  \/ \E symbol \in ParseSymbols : ParseLpPair(symbol)

(***************************************************************************)
(* SpecDecode: calls of formatSupplyAPY on on-chain integers of one to     *)
(* MaxMantissaDigits significant digits followed by 20 to 26 zeros         *)
(***************************************************************************)
MaxMantissaDigits == 2

Mantissas ==
  {m \in UNION {[1..n -> Range(DigitChars)] : n \in 1..MaxMantissaDigits} :
     m[1] # "0" /\ m[Len(m)] # "0"}

SupplyAPYs == {<<"0">>} \cup {m \o Zeros(z) : m \in Mantissas, z \in 20..26}

FormatSupplyAPY(supplyAPY) ==
  /\ call = NoCall
  /\ call' = [fn |-> "formatSupplyAPY", arg |-> [supplyAPY |-> supplyAPY],
              result |-> formatSupplyAPYDigits(supplyAPY)]
  /\ UNCHANGED <<idVars, histVars, aggVars, euler, settled, fmt, runVars>>

NextDecode == \E supplyAPY \in SupplyAPYs : FormatSupplyAPY(supplyAPY)

(***************************************************************************)
(* SpecEuler: one call of fetchEulerYields, step by step.  The verified    *)
(* vaults are read in batches; the reads of a batch settle in any order;   *)
(* a read may fail and a vault's data may lack its asset symbol            *)
(***************************************************************************)
MaxVaults == 7

batchSize == 5

\* the result of a read that has not settled
Unsettled == <<"pending", "pending">>

IdleEuler ==
  [pc |-> "idle", vaults |-> <<>>, i |-> 0, inflight |-> {}, results |-> <<>>,
   reads |-> <<>>, waited |-> 0, allYields |-> <<>>, result |-> <<>>]

\* the last index of the batch that starts after index i
batchEnd(i, n) == IF i + batchSize < n THEN i + batchSize ELSE n

\* what getVaultInfoFull does for each verified vault: n vaults taken from
\* the feed in turn; those in fails do not answer well, either all by a
\* failed read or all by data without asset symbol
VerifiedVaults(n, offset, fails, kind) ==
  [k \in 1..n |->
     LET data == EulerFeed[((offset + k) % Len(EulerFeed)) + 1]
     IN  IF k \notin fails THEN [data |-> data, readOk |-> TRUE]
         ELSE IF kind = "read" THEN [data |-> data, readOk |-> FALSE]
         ELSE [data |-> [data EXCEPT !.assetSymbol = Undefined], readOk |-> TRUE]]

\* verifiedArray() has answered
FetchEulerYieldsStart(vaults) ==
  /\ euler.pc = "idle"
  /\ euler' = [euler EXCEPT !.pc = "loop", !.vaults = vaults,
                            !.results = [k \in DOMAIN vaults |-> Unsettled],
                            !.reads = [k \in DOMAIN vaults |-> 0]]
  /\ UNCHANGED <<idVars, histVars, aggVars, call, settled, fmt, runVars>>

\* verifiedArray() rejects: the catch block returns []
FetchEulerYieldsUnreachable ==
  /\ euler.pc = "idle"
  /\ euler' = [euler EXCEPT !.pc = "failed", !.result = <<>>]
  /\ UNCHANGED <<idVars, histVars, aggVars, call, settled, fmt, runVars>>

\* batch.map(async ...): the reads of the next batch are started
EulerBatchStart ==
  LET batch == (euler.i + 1)..batchEnd(euler.i, Len(euler.vaults))
  IN  /\ euler.pc = "loop"
      /\ euler.i < Len(euler.vaults)
      /\ euler' = [euler EXCEPT !.pc = "awaiting", !.inflight = batch,
                     !.reads = [k \in DOMAIN euler.reads |->
                                  IF k \in batch THEN euler.reads[k] + 1 ELSE euler.reads[k]]]
      /\ UNCHANGED <<idVars, histVars, aggVars, call, settled, fmt, runVars>>

\* a variant of EulerVaultSettles in which a failed read is not caught: the
\* batch's Promise.all rejects and the outer catch returns []
EulerVaultSettles_uncaught(k) ==
  /\ euler.pc = "awaiting"
  /\ k \in euler.inflight
  /\ euler' = IF euler.vaults[k].readOk
              THEN [euler EXCEPT !.inflight = @ \ {k},
                                 !.results[k] = transformEulerVault(euler.vaults[k].data)]
              ELSE [euler EXCEPT !.pc = "failed", !.inflight = {}, !.result = <<>>]
  /\ UNCHANGED <<idVars, histVars, aggVars, call, settled, fmt, runVars>>

\* one read of the batch settles: the vault's record, or null when the
\* read failed or the vault is skipped
EulerVaultSettles(k) ==
  /\ euler.pc = "awaiting"
  /\ k \in euler.inflight
  /\ euler' = [euler EXCEPT !.inflight = @ \ {k},
                            !.results[k] = IF euler.vaults[k].readOk
                                           THEN transformEulerVault(euler.vaults[k].data)
                                           ELSE <<>>]
  /\ UNCHANGED <<idVars, histVars, aggVars, call, settled, fmt, runVars>>

\* a variant of EulerBatchSettled that goes on without the delay
EulerBatchSettled_noDelay ==
  LET last == batchEnd(euler.i, Len(euler.vaults))
  IN  /\ euler.pc = "awaiting"
      /\ euler.inflight = {}
      /\ euler' = [euler EXCEPT !.pc = "loop", !.i = @ + batchSize,
                     !.allYields = @ \o flat(SubSeq(euler.results, euler.i + 1, last))]
      /\ UNCHANGED <<idVars, histVars, aggVars, call, settled, fmt, runVars>>

\* Promise.all(batchPromises) has resolved: the batch's records are pushed
\* in the order of the vaults; a delay follows unless the batch was the last
EulerBatchSettled ==
  LET last == batchEnd(euler.i, Len(euler.vaults))
  IN  /\ euler.pc = "awaiting"
      /\ euler.inflight = {}
      /\ euler' = [euler EXCEPT
                     !.pc = IF euler.i + batchSize < Len(euler.vaults) THEN "delay" ELSE "loop",
                     !.i = IF euler.i + batchSize < Len(euler.vaults) THEN @ ELSE @ + batchSize,
                     !.allYields = @ \o flat(SubSeq(euler.results, euler.i + 1, last))]
      /\ UNCHANGED <<idVars, histVars, aggVars, call, settled, fmt, runVars>>

\* the 500 ms timer fires
EulerDelayElapsed ==
  /\ euler.pc = "delay"
  /\ euler' = [euler EXCEPT !.pc = "loop", !.i = @ + batchSize, !.waited = @ + 1]
  /\ UNCHANGED <<idVars, histVars, aggVars, call, settled, fmt, runVars>>

\* after the loop: the correlation filter and the return
FetchEulerYieldsReturn ==
  /\ euler.pc = "loop"
  /\ euler.i >= Len(euler.vaults)
  /\ euler' = [euler EXCEPT !.pc = "done",
                            !.result = filterCorrelatedEulerYields(euler.allYields)]
  /\ UNCHANGED <<idVars, histVars, aggVars, call, settled, fmt, runVars>>

NextEuler ==
  \/ \E n \in 0..MaxVaults, offset \in 0..(Len(EulerFeed) - 1), kind \in {"read", "data"} :
       \E fails \in SUBSET (1..n) :
         FetchEulerYieldsStart(VerifiedVaults(n, offset, fails, kind))
  \/ FetchEulerYieldsUnreachable
  \/ EulerBatchStart
  \/ \E k \in 1..MaxVaults : EulerVaultSettles(k)
  \/ EulerBatchSettled
  \/ EulerDelayElapsed
  \/ FetchEulerYieldsReturn

(***************************************************************************)
(* SpecOrder: one run of fetchTonYields in which the order of completion   *)
(* of the seven adapter calls is recorded; every provider answers its      *)
(* whole feed                                                              *)
(***************************************************************************)
\* the call of an adapter completes
AdapterSettles(adapter) ==
  /\ pc = "awaiting"
  /\ raw[adapter].status = "pending"
  /\ raw' = [raw EXCEPT ![adapter] = Answer(Feed(adapter))]
  /\ settled' = Append(settled, adapter)
  /\ UNCHANGED <<pc, buckets, idVars, histVars, call, euler, fmt, runVars>>

NextOrder ==
  \/ \E a \in Adapters : AdapterSettles(a)
  \/ FetchTonYieldsMerge

(***************************************************************************)
(* SpecDay: the history phase of one formatChannelMessage call, step by    *)
(* step: calculateAll7DayAverages and then saveAllApySnapshots, each over  *)
(* batches of 50 records whose store calls run concurrently                *)
(***************************************************************************)
\* batchSize of calculateAll7DayAverages and of saveAllApySnapshots
historyBatchSize == 50

\* the position, in allPools, of the first record followed here; the records
\* before it have other identities and touch other keys of the store
DayOffsets == {0, historyBatchSize - 2, historyBatchSize - 1}

\* the numbers of earlier days held by the store when the call starts
DayInitLens == {0, MIN_DAYS_FOR_AVERAGE - 1, MIN_DAYS_FOR_AVERAGE, AVERAGE_WINDOW, MAX_HISTORY_DAYS}

\* the records followed: distinct records in any order, among them two that
\* fold to the same identity
DayPoolLists ==
  {l \in UNION {[1..n -> HistPools] : n \in 1..Cardinality(HistPools)} :
     \A i, j \in DOMAIN l : i # j => l[i] # l[j]}

\* one saveApySnapshot call: not started, awaiting loadPoolHistory, awaiting
\* savePoolHistory, returned
IdleSave == [pc |-> "idle", history |-> <<>>]

IdleFmt == [pc |-> "idle", pools |-> <<>>, offset |-> 0, batch |-> 0, before |-> <<>>,
            averages |-> <<>>, saves |-> <<>>, failed |-> FALSE, overlapped |-> FALSE]

\* the batch of pools.slice(i, i + batchSize) in which record i falls
historyBatchOf(i) == (fmt.offset + i - 1) \div historyBatchSize

InBatch(i) == historyBatchOf(i) = fmt.batch

\* averages.get(y) || null: the average shown with record i
avg7d(average) == IF IsNone(average) \/ Get(average).sum = 0 THEN None ELSE average

\* formatChannelMessage(yields): allPools is built and calculateAll7DayAverages
\* starts the calculate7DayAverage calls of its first batch
FormatChannelMessageCalled(pools, offset) ==
  /\ fmt.pc = "idle"
  /\ fmt' = [IdleFmt EXCEPT !.pc = "averages", !.pools = pools, !.offset = offset,
                            !.batch = offset \div historyBatchSize, !.before = store,
                            !.averages = [i \in DOMAIN pools |-> Unsettled],
                            !.saves = [i \in DOMAIN pools |-> IdleSave]]
  /\ UNCHANGED <<idVars, histVars, aggVars, call, euler, settled, runVars>>

\* a variant of AverageSettles in which today's snapshot of the record is
\* already part of the history that is averaged
AverageSettles_afterSave(i, readOk) ==
  /\ fmt.pc = "averages" /\ InBatch(i) /\ fmt.averages[i] = Unsettled
  /\ LET history == loadPoolHistory(poolIdOf(fmt.pools[i]), readOk)
         saved == upsertSnapshot(history, today, fmt.pools[i].apyTotal)
     IN  fmt' = [fmt EXCEPT !.averages[i] = calculate7DayAverage(saved),
                            !.failed = @ \/ ~readOk]
  /\ UNCHANGED <<idVars, histVars, aggVars, call, euler, settled, runVars>>

\* calculate7DayAverage(pool) of record i returns: the history is loaded
\* (empty when the store cannot be read) and averaged
AverageSettles(i, readOk) ==
  /\ fmt.pc = "averages" /\ InBatch(i) /\ fmt.averages[i] = Unsettled
  /\ LET history == loadPoolHistory(poolIdOf(fmt.pools[i]), readOk)
     IN  fmt' = [fmt EXCEPT !.averages[i] = calculate7DayAverage(history),
                            !.failed = @ \/ ~readOk]
  /\ UNCHANGED <<idVars, histVars, aggVars, call, euler, settled, runVars>>

\* Promise.all of a batch of calculate7DayAverage calls has settled: the
\* next batch starts, or calculateAll7DayAverages returns and
\* saveAllApySnapshots starts the saveApySnapshot calls of its first batch
AveragesBatchSettled ==
  /\ fmt.pc = "averages"
  /\ \A i \in DOMAIN fmt.pools : InBatch(i) => fmt.averages[i] # Unsettled
  /\ LET first == fmt.offset \div historyBatchSize
     IN  fmt' = IF fmt.batch < historyBatchOf(Len(fmt.pools))
                THEN [fmt EXCEPT !.batch = @ + 1]
                ELSE [fmt EXCEPT !.pc = "snapshots", !.batch = first,
                                 !.saves = [i \in DOMAIN fmt.pools |->
                                              IF historyBatchOf(i) = first
                                              THEN [IdleSave EXCEPT !.pc = "load"]
                                              ELSE IdleSave]]
  /\ UNCHANGED <<idVars, histVars, aggVars, call, euler, settled, runVars>>

\* saveApySnapshot of record i: loadPoolHistory has returned, today's date
\* is taken, today's snapshot upserted, the history sorted and capped
SnapshotLoaded(i, readOk) ==
  /\ fmt.pc = "snapshots" /\ fmt.saves[i].pc = "load"
  /\ LET poolId == poolIdOf(fmt.pools[i])
         history == loadPoolHistory(poolId, readOk)
         others == {j \in DOMAIN fmt.pools \ {i} : poolIdOf(fmt.pools[j]) = poolId}
     IN  fmt' = [fmt EXCEPT !.saves[i] = [pc |-> "save",
                                          history |-> upsertSnapshot(history, today, fmt.pools[i].apyTotal)],
                            !.failed = @ \/ ~readOk,
                            !.overlapped = @ \/ \E j \in others : fmt.saves[j].pc = "save"]
  /\ UNCHANGED <<idVars, histVars, aggVars, call, euler, settled, runVars>>

\* saveApySnapshot of record i: savePoolHistory has returned
SnapshotSaved(i, writeOk) ==
  /\ fmt.pc = "snapshots" /\ fmt.saves[i].pc = "save"
  /\ LET poolId == poolIdOf(fmt.pools[i]) IN
       /\ store' = savePoolHistory(poolId, fmt.saves[i].history, writeOk)
       /\ recorded' = IF writeOk
                      THEN [recorded EXCEPT ![poolId] = @ \cup {today}]
                      ELSE recorded
  /\ fmt' = [fmt EXCEPT !.saves[i].pc = "done", !.failed = @ \/ ~writeOk]
  /\ UNCHANGED <<today, op, idVars, aggVars, call, euler, settled, runVars>>

\* Promise.all of a batch of saveApySnapshot calls has settled: the next
\* batch starts, or saveAllApySnapshots returns
SnapshotsBatchSettled ==
  /\ fmt.pc = "snapshots"
  /\ \A i \in DOMAIN fmt.pools : InBatch(i) => fmt.saves[i].pc = "done"
  /\ fmt' = IF fmt.batch < historyBatchOf(Len(fmt.pools))
            THEN [fmt EXCEPT !.batch = @ + 1,
                             !.saves = [i \in DOMAIN fmt.pools |->
                                          IF historyBatchOf(i) = fmt.batch + 1
                                          THEN [IdleSave EXCEPT !.pc = "load"]
                                          ELSE fmt.saves[i]]]
            ELSE [fmt EXCEPT !.pc = "done"]
  /\ UNCHANGED <<idVars, histVars, aggVars, call, euler, settled, runVars>>

NextDay ==
  \/ \E pools \in DayPoolLists, offset \in DayOffsets : FormatChannelMessageCalled(pools, offset)
  \/ \E i \in DOMAIN fmt.pools, readOk \in BOOLEAN : AverageSettles(i, readOk)
  \/ AveragesBatchSettled
  \/ \E i \in DOMAIN fmt.pools, readOk \in BOOLEAN : SnapshotLoaded(i, readOk)
  \/ \E i \in DOMAIN fmt.pools, writeOk \in BOOLEAN : SnapshotSaved(i, writeOk)
  \/ SnapshotsBatchSettled

(***************************************************************************)
(* Specifications                                                          *)
(***************************************************************************)
IdParked   == idOrig = NoPool /\ idPool = NoPool /\ idEdits = 0
HistParked == /\ store = [id \in HistIds |-> <<>>]
              /\ today = Day0
              /\ op = IdleOp
              /\ recorded = [id \in HistIds |-> {}]
AggParked  == raw = [a \in Adapters |-> Pending] /\ pc = "idle" /\ buckets = EmptyBuckets
CallParked == call = NoCall /\ euler = IdleEuler /\ settled = <<>> /\ fmt = IdleFmt
RunParked  == runs = [r \in Runs |-> IdleRun] /\ post = IdlePost

InitId ==
  /\ idOrig \in IdPools
  /\ idPool = idOrig
  /\ idEdits = 0
  /\ HistParked
  /\ AggParked
  /\ CallParked
  /\ RunParked

InitHist ==
  /\ \E n \in HistInitLens :
       store = [id \in HistIds |-> IF id = poolIdOf(HistPoolA) THEN InitHistory(n) ELSE <<>>]
  /\ today = Day0
  /\ op = IdleOp
  /\ recorded = [id \in HistIds |-> DatesOf(store[id])]
  /\ IdParked
  /\ AggParked
  /\ CallParked
  /\ RunParked

InitAgg ==
  /\ IdParked
  /\ HistParked
  /\ AggParked
  /\ CallParked
  /\ RunParked

\* all seven providers have answered
InitMerge ==
  /\ IdParked
  /\ HistParked
  /\ pc = "awaiting"
  /\ buckets = EmptyBuckets
  /\ CallParked
  /\ RunParked
  /\ \E d1 \in Answers("DefiLlama", MaxRawTotal) :
     \E d2 \in Answers("SwapCoffee", MaxRawTotal - Len(d1)) :
     \E d3 \in Answers("Merkl", MaxRawTotal - Len(d1) - Len(d2)) :
     \E d4 \in Answers("Morpho", MaxRawTotal - Len(d1) - Len(d2) - Len(d3)) :
     \E d5 \in Answers("Euler", MaxRawTotal - Len(d1) - Len(d2) - Len(d3) - Len(d4)) :
     \E d6 \in Answers("YieldFi", MaxRawTotal - Len(d1) - Len(d2) - Len(d3) - Len(d4) - Len(d5)) :
     \E d7 \in Answers("Ethena", MaxRawTotal - Len(d1) - Len(d2) - Len(d3) - Len(d4) - Len(d5) - Len(d6)) :
       raw = [a \in Adapters |->
                CASE a = "DefiLlama"  -> Answer(d1)
                  [] a = "SwapCoffee" -> Answer(d2)
                  [] a = "Merkl"      -> Answer(d3)
                  [] a = "Morpho"     -> Answer(d4)
                  [] a = "Euler"      -> Answer(d5)
                  [] a = "YieldFi"    -> Answer(d6)
                  [] a = "Ethena"     -> Answer(d7)]

\* fetchTonYields has started the seven adapter calls
InitOrder ==
  /\ IdParked
  /\ HistParked
  /\ raw = [a \in Adapters |-> Pending]
  /\ pc = "awaiting"
  /\ buckets = EmptyBuckets
  /\ CallParked
  /\ RunParked

\* two runs, no call yet, the store as at the first call of SpecHist
InitOverlap ==
  /\ \E n \in HistInitLens :
       store = [id \in HistIds |-> IF id = poolIdOf(HistPoolA) THEN InitHistory(n) ELSE <<>>]
  /\ today = Day0
  /\ op = IdleOp
  /\ recorded = [id \in HistIds |-> DatesOf(store[id])]
  /\ IdParked
  /\ AggParked
  /\ CallParked
  /\ RunParked

\* formatChannelMessage has not been called yet; the store holds the earlier
\* days of one identity and, when a run of today has already saved, today
InitDay ==
  /\ \E n \in DayInitLens, savedToday \in BOOLEAN :
       LET earlier == InitHistory(n)
           history == IF savedToday THEN upsertSnapshot(earlier, Day0, PastApy(Day0))
                                    ELSE earlier
       IN  store = [id \in HistIds |-> IF id = poolIdOf(HistPoolA) THEN history ELSE <<>>]
  /\ today = Day0
  /\ op = IdleOp
  /\ recorded = [id \in HistIds |-> DatesOf(store[id])]
  /\ IdParked
  /\ AggParked
  /\ CallParked
  /\ RunParked

SpecId    == InitId /\ [][NextId]_vars
SpecHist  == InitHist /\ [][NextHist]_vars
SpecAgg   == InitAgg /\ [][NextAgg]_vars
SpecMerge == InitMerge /\ [][NextMerge]_vars
SpecTop   == InitMerge /\ [][NextTop]_vars
SpecOverlap == InitOverlap /\ [][NextOverlap]_vars
SpecRun   == InitAgg /\ [][NextRun]_vars
SpecMalformed == InitAgg /\ [][NextMalformed]_vars
SpecClassify == InitAgg /\ [][NextClassify]_vars
SpecDecode == InitAgg /\ [][NextDecode]_vars
SpecEuler == InitAgg /\ [][NextEuler]_vars
SpecOrder == InitOrder /\ [][NextOrder]_vars
SpecDay   == InitDay /\ [][NextDay]_vars

\* the steps of the program itself are taken when they can be; nothing makes
\* a provider answer or fail
SpecRunLive == SpecRun /\ WF_vars(ProgramStep)

(***************************************************************************)
(* Properties of the history store (SpecHist)                              *)
(***************************************************************************)
SaveDone == op.kind = "save" /\ op.pc = "done"
AvgDone  == op.kind = "avg" /\ op.pc = "done"
OpId     == poolIdOf(op.pool)

OnePerDate(snaps) ==
  \A i, j \in DOMAIN snaps : snaps[i].date = snaps[j].date => i = j

\* C2: every stored history holds at most one snapshot per date, and a
\* saveApySnapshot that stored its snapshot leaves exactly one entry for its
\* date, carrying its own apy; when the date was already there no entry is added
C2_UpsertByDate ==
  /\ \A id \in HistIds : OnePerDate(store[id])
  /\ (SaveDone /\ op.writeOk) =>
       /\ \E i \in DOMAIN store[OpId] : store[OpId][i] = Snapshot(op.date, op.apy)
       /\ \A i \in DOMAIN store[OpId] :
            store[OpId][i].date = op.date => store[OpId][i].apy = op.apy
       /\ (op.readOk /\ op.date \in DatesOf(op.before)) => Len(store[OpId]) = Len(op.before)

\* a second call on the same date has replaced a different apy
C2_Witness ==
  /\ SaveDone /\ op.writeOk /\ op.readOk
  /\ \E i \in DOMAIN op.before : op.before[i].date = op.date /\ op.before[i].apy # op.apy
  /\ Len(store[OpId]) = Len(op.before)

NewestFirst(snaps) ==
  \A i \in DOMAIN snaps : \A j \in DOMAIN snaps : i < j => snaps[i].date > snaps[j].date

\* the n most recent dates of a set of dates
MostRecent(dates, n) == {d \in dates : Cardinality({e \in dates : e > d}) < n}

\* C3: after every saveApySnapshot the written history is ordered newest
\* first and has at most 30 entries, and once more than 30 distinct dates
\* have been recorded it holds exactly the 30 most recent of them
C3_SortedAndCapped ==
  (SaveDone /\ op.writeOk) =>
    /\ NewestFirst(store[OpId])
    /\ Len(store[OpId]) <= MAX_HISTORY_DAYS
    /\ Cardinality(recorded[OpId]) > MAX_HISTORY_DAYS =>
         DatesOf(store[OpId]) = MostRecent(recorded[OpId], MAX_HISTORY_DAYS)

\* C4: in every step, a stored date of an identity stays stored unless 30
\* newer dates are stored for that identity afterwards (the retention cap)
C4_OnlyTheCapRemoves ==
  [][\A id \in HistIds : \A d \in DatesOf(store[id]) :
       \/ d \in DatesOf(store'[id])
       \/ Cardinality({e \in DatesOf(store'[id]) : e > d}) >= MAX_HISTORY_DAYS]_vars

\* C5: calculate7DayAverage returns null when fewer than 3 snapshots are
\* stored, and a number when 3 or more are stored and the store was read
C5_AbsentBelowMinimum ==
  AvgDone =>
    /\ Len(store[OpId]) < MIN_DAYS_FOR_AVERAGE => IsNone(op.result)
    /\ (Len(store[OpId]) >= MIN_DAYS_FOR_AVERAGE /\ op.readOk) =>
         ~IsNone(op.result) /\ Get(op.result).n > 0

\* two snapshots are stored and the store was read: the answer is null
C5_Witness ==
  /\ AvgDone /\ op.readOk
  /\ Len(store[OpId]) = MIN_DAYS_FOR_AVERAGE - 1
  /\ IsNone(op.result)

RECURSIVE SumOfApys(_)
SumOfApys(snapSet) ==
  IF snapSet = {} THEN 0
  ELSE LET x == CHOOSE x \in snapSet : TRUE IN x.apy + SumOfApys(snapSet \ {x})

Min(a, b) == IF a < b THEN a ELSE b

\* C6: with n >= 3 stored snapshots that were read, the average is the sum
\* of the apys of the min(n, 7) snapshots of the most recent dates, divided
\* by min(n, 7)
C6_MeanOfNewestSeven ==
  (AvgDone /\ op.readOk /\ Len(store[OpId]) >= MIN_DAYS_FOR_AVERAGE) =>
    LET stored == Range(store[OpId])
        k      == Min(Len(store[OpId]), AVERAGE_WINDOW)
        newest == {x \in stored : Cardinality({y \in stored : y.date > x.date}) < k}
    IN  op.result = Some([sum |-> SumOfApys(newest), n |-> k])

\* more than 7 snapshots are stored and their overall mean is not the mean
\* of the 7 newest
C6_Witness ==
  /\ AvgDone /\ op.readOk
  /\ Len(store[OpId]) > AVERAGE_WINDOW
  /\ ~IsNone(op.result)
  /\ Get(op.result).n = AVERAGE_WINDOW
  /\ Get(op.result).sum * Len(store[OpId]) # sumApy(store[OpId]) * AVERAGE_WINDOW

(***************************************************************************)
(* Properties of the pool identity (SpecId)                                *)
(***************************************************************************)
\* fold: lowercase and drop every character outside [a-zA-Z0-9]
RECURSIVE fold(_)
fold(s) ==
  IF Len(s) = 0 THEN <<>>
  ELSE (IF IsAlnumChar(s[1]) THEN <<toLowerChar(s[1])>> ELSE <<>>) \o fold(Tail(s))

FoldedIdentity(pool) ==
  fold(pool.source) \o Hyphen \o fold(pool.asset) \o Hyphen
    \o fold(IF metaIsTruthy(pool.poolMeta) THEN Get(pool.poolMeta) ELSE DefaultMeta)

SameMetaPresence(p, q) == metaIsTruthy(p.poolMeta) = metaIsTruthy(q.poolMeta)

\* C7 as stated: the identity is the folded triple, and every case or
\* punctuation variant of a record has the identity of the record
C7_EveryVariantSameIdentity ==
  /\ poolIdOf(idPool) = FoldedIdentity(idPool)
  /\ poolIdOf(idPool) = poolIdOf(idOrig)

\* C7 amended: the identity is the folded triple, and a case or punctuation
\* variant has the identity of the record when poolMeta is empty (or null)
\* in both or non-empty in both
C7_IdentityIsFoldedTriple ==
  /\ poolIdOf(idPool) = FoldedIdentity(idPool)
  /\ SameMetaPresence(idPool, idOrig) => poolIdOf(idPool) = poolIdOf(idOrig)

\* a record varied in case and punctuation, with a label, keeps its identity
C7_Witness ==
  /\ idEdits = MaxIdEdits
  /\ idPool # idOrig
  /\ metaIsTruthy(idOrig.poolMeta) /\ metaIsTruthy(idPool.poolMeta)
  /\ idPool.poolMeta # idOrig.poolMeta
  /\ poolIdOf(idPool) = poolIdOf(idOrig)

(***************************************************************************)
(* Properties of the aggregator (SpecAgg, SpecMerge)                       *)
(***************************************************************************)
Returned == pc = "done"

\* every record of every bucket satisfies P
EveryBucketRecord(P(_, _)) ==
  \A key \in BucketKeys : \A i \in DOMAIN buckets[key] : P(key, buckets[key][i])

SomeBucketRecord(P(_, _)) ==
  \E key \in BucketKeys : \E i \in DOMAIN buckets[key] : P(key, buckets[key][i])

\* a failed adapter counted as an adapter that answered with no records
failedAsEmpty(answers) ==
  [a \in Adapters |-> IF answers[a].status = "failed" THEN Answer(<<>>) ELSE answers[a]]

\* C1: whatever subset of the seven adapters fails, fetchTonYields does not
\* reject: it returns the buckets built from the records of the adapters
\* that did not fail, every failed adapter contributing an empty list.
C1_NoFailureRejects ==
  /\ pc # "rejected"
  /\ Returned => buckets = fetchTonYields(failedAsEmpty(raw))

\* C8: every record in a returned bucket has 0 < apyTotal < 10000 %,
\* whichever adapter emitted it; a record with apyTotal 15000 % reaches no
\* bucket.
C8_ApyTotalInRange ==
  LET InRange(key, y) == y.apyTotal > 0 /\ y.apyTotal < APY_LIMIT
  IN  Returned => EveryBucketRecord(InRange)

\* the lower-cased project contains a pattern of the exclusion list
ContainsExclusionPattern(project) ==
  \E i \in DOMAIN SWAP_COFFEE_PROTOCOLS :
    includes(toLowerCase(project), SWAP_COFFEE_PROTOCOLS[i])

\* the TVLs, in bucket order, of the records of a source in a bucket
TvlsOf(key, source) ==
  LET FromSource(y) == y.source = source
      kept == SelectSeq(buckets[key], FromSource)
  IN  [i \in DOMAIN kept |-> kept[i].tvlUsd]

TONSTAKERS == <<"t","o","n","s","t","a","k","e","r","s">>

\* Swap Coffee answered with Tonstakers pools of exactly the given TVLs and
\* DefiLlama with a Tonstakers pool of the given TVL
BothCoverTonstakers(swapCoffeeTvls, defiLlamaTvl) ==
  /\ {raw["SwapCoffee"].data[i].tvl_usd :
        i \in {j \in DOMAIN raw["SwapCoffee"].data :
                 raw["SwapCoffee"].data[j].protocol = TONSTAKERS}} = swapCoffeeTvls
  /\ \E i \in DOMAIN raw["DefiLlama"].data :
       /\ toLowerCase(raw["DefiLlama"].data[i].project) = TONSTAKERS
       /\ raw["DefiLlama"].data[i].tvlUsd = Some(defiLlamaTvl)

\* the emitted records are all in their buckets
AllInBuckets(emitted) ==
  \A i \in DOMAIN emitted :
    \E j \in DOMAIN buckets[bucketOf(emitted[i])] :
      buckets[bucketOf(emitted[i])][j] = emitted[i]

\* the records the Swap Coffee adapter emitted are all in their buckets,
\* and in every bucket they stand in the order of their TVL
SwapCoffeeRecordsKept ==
  /\ AllInBuckets(fetchSwapCoffeeYields(raw["SwapCoffee"]))
  /\ \A key \in BucketKeys : \A i, j \in DOMAIN buckets[key] :
       (i < j /\ buckets[key][i].adapter = "SwapCoffee"
              /\ buckets[key][j].adapter = "SwapCoffee")
         => buckets[key][i].tvlUsd >= buckets[key][j].tvlUsd

NoExcludedDefiLlamaRecord ==
  LET Allowed(key, y) == y.adapter = "DefiLlama" => ~ContainsExclusionPattern(y.project)
  IN  EveryBucketRecord(Allowed)

PairInItsBucket(key, y) ==
  \/ isSingleAsset(y.asset)
  \/ /\ key \in AssetTypes
     /\ pairBelongsToCategory(y.asset, key)
     /\ isCorrelatedPair(y.asset, key)
  \/ /\ key = "TON_USDT"
     /\ y.isTonUsdtPool
     /\ isTonUsdtPool(y.asset)

\* C10: every pair record in the TON, STABLE or BTC bucket passes
\* pairBelongsToCategory and isCorrelatedPair for that bucket, every record
\* in the TON_USDT bucket is a TON-USDT pool, and no other pair is in any
\* bucket.
C10_PairsCorrelatedOrTonUsdt ==
  LET TonUsdt(key, y) == key = "TON_USDT" => (y.isTonUsdtPool /\ isTonUsdtPool(y.asset))
  IN  Returned => (EveryBucketRecord(PairInItsBucket) /\ EveryBucketRecord(TonUsdt))

\* a correlated pair and a TON-USDT pool are in their buckets while the
\* TON-STON pool that Swap Coffee also answered with is in none
C10_Witness ==
  LET IsCorrelatedPairRecord(key, y) == key \in AssetTypes /\ ~isSingleAsset(y.asset)
      IsTonSton(key, y) == y.asset = <<"T","O","N","-","S","T","O","N">>
      TonStonPool(pool) == pool.is_trusted /\ getAssetSymbol(pool) = <<"T","O","N","-","S","T","O","N">>
  IN  /\ Returned
      /\ SeqSome(raw["SwapCoffee"].data, TonStonPool)
      /\ SomeBucketRecord(IsCorrelatedPairRecord)
      /\ Len(buckets["TON_USDT"]) > 0
      /\ ~SomeBucketRecord(IsTonSton)

(***************************************************************************)
(* Properties of the presentation                                          *)
(***************************************************************************)
isSortedByTvl(yields) ==
  \A i, j \in DOMAIN yields : i < j => yields[i].tvlUsd >= yields[j].tvlUsd

Occurrences(list, x) == Cardinality({i \in DOMAIN list : list[i] = x})

\* the groups are in order of non-increasing total TVL, carry distinct source
\* names, and every record of the list is in the group of its source and in
\* no other, as often as it is in the list
GroupsOrderedAndPartition(yields, groups) ==
  /\ \A g, h \in DOMAIN groups :
       g < h => /\ totalTvl(groups[g].yields) >= totalTvl(groups[h].yields)
                /\ groups[g].protocol # groups[h].protocol
  /\ \A g \in DOMAIN groups :
       /\ groups[g].yields # <<>>
       /\ \A i \in DOMAIN groups[g].yields :
            /\ groups[g].yields[i].source = groups[g].protocol
            /\ Occurrences(groups[g].yields, groups[g].yields[i])
                 = Occurrences(yields, groups[g].yields[i])
  /\ \A i \in DOMAIN yields :
       \E g \in DOMAIN groups :
         /\ groups[g].protocol = yields[i].source
         /\ Occurrences(groups[g].yields, yields[i]) >= 1

\* C11: after fetchTonYields has merged all adapters, every bucket is in
\* order of non-increasing TVL, and grouping a bucket by source name
\* (groupByProtocol, organizeByProtocol) gives groups in order of
\* non-increasing total TVL in which every record of the bucket is in exactly
\* one group.
C11_BucketsAndGroupsOrdered ==
  Returned =>
    \A key \in BucketKeys :
      /\ isSortedByTvl(buckets[key])
      /\ GroupsOrderedAndPartition(buckets[key], groupByProtocol(buckets[key]))
      /\ GroupsOrderedAndPartition(buckets[key], organizeByProtocol(buckets[key]))

\* a bucket of three records whose largest record belongs to the source with
\* the smaller total, so that the groups are not in the order of the bucket
C11_Witness ==
  /\ Returned
  /\ \E key \in BucketKeys :
       /\ Len(buckets[key]) = 3
       /\ Len(organizeByProtocol(buckets[key])) = 2
       /\ organizeByProtocol(buckets[key])[1].protocol # buckets[key][1].source
       /\ buckets[key][1].tvlUsd > buckets[key][2].tvlUsd

\* the records getTopYields chooses from, in the order TON, STABLE, BTC
TopCandidates == buckets["TON"] \o buckets["STABLE"] \o buckets["BTC"]

\* candidate p goes before candidate q: a higher apyTotal, or the same
\* apyTotal and an earlier place among the candidates
GoesBefore(p, q) ==
  \/ TopCandidates[p].apyTotal > TopCandidates[q].apyTotal
  \/ TopCandidates[p].apyTotal = TopCandidates[q].apyTotal /\ p < q

RankOf(p) == 1 + Cardinality({q \in DOMAIN TopCandidates : GoesBefore(q, p)})

\* C12: getTopYields(grouped, N) returns at most N records, none of them of
\* the TON_USDT bucket, in order of non-increasing apyTotal; every returned
\* record has an apyTotal at least that of every record of TON, STABLE and
\* BTC that is not returned; records of equal apyTotal keep the order TON
\* bucket, STABLE bucket, BTC bucket and inside a bucket the bucket's order.
C12_TopYields ==
  call.fn = "getTopYields" =>
    /\ Len(call.result) <= call.arg
    /\ Len(call.result) <= Len(TopCandidates)
    /\ \A k \in DOMAIN call.result :
         /\ \A i \in DOMAIN buckets["TON_USDT"] : call.result[k] # buckets["TON_USDT"][i]
         /\ \E p \in DOMAIN TopCandidates :
              RankOf(p) = k /\ call.result[k] = TopCandidates[p]
    /\ \A k, l \in DOMAIN call.result :
         k < l => call.result[k].apyTotal >= call.result[l].apyTotal
    /\ \A p \in DOMAIN TopCandidates :
         RankOf(p) > Len(call.result) =>
           \A k \in DOMAIN call.result : call.result[k].apyTotal >= TopCandidates[p].apyTotal

\* a TON record and a record of another bucket with the same apyTotal are
\* returned in this order, while the TON_USDT bucket holds a higher apyTotal
C12_Witness ==
  /\ call.fn = "getTopYields"
  /\ Len(call.result) = 2
  /\ call.result[1].apyTotal = call.result[2].apyTotal
  /\ call.result[1].assetType = "TON"
  /\ call.result[2].assetType # "TON"
  /\ call.result[2].tvlUsd > call.result[1].tvlUsd
  /\ \E i \in DOMAIN buckets["TON_USDT"] :
       buckets["TON_USDT"][i].apyTotal > call.result[1].apyTotal

(***************************************************************************)
(* Properties of overlapping runs (SpecOverlap)                            *)
(***************************************************************************)
\* both runs stored a snapshot of the same date under the same identity, and
\* run r stored after run o
SavedAfter(r, o) ==
  /\ r # o
  /\ HasSaved(r) /\ HasSaved(o)
  /\ poolIdOf(runs[r].pool) = poolIdOf(runs[o].pool)
  /\ runs[r].date = runs[o].date
  /\ runs[r].order > runs[o].order

\* C13: when the loads and saves of two overlapping runs on one pool
\* identity interleave in any order, the stored history keeps at most one
\* snapshot per date, is ordered newest first and has at most 30 entries,
\* and for a date written by both runs it holds the apy of the run that
\* saved last.
C13_OverlapKeepsHistorySound ==
  /\ \A id \in HistIds :
       /\ OnePerDate(store[id])
       /\ NewestFirst(store[id])
       /\ Len(store[id]) <= MAX_HISTORY_DAYS
  /\ \A r, o \in Runs :
       SavedAfter(r, o) =>
         LET snaps == store[poolIdOf(runs[r].pool)]
         IN  \A i \in DOMAIN snaps :
               snaps[i].date = runs[r].date => snaps[i].apy = runs[r].apy

\* both runs loaded before either saved, then both stored the same date with
\* different apy values on top of a full history
C13_Witness ==
  \E r, o \in Runs :
    /\ SavedAfter(r, o)
    /\ ~runs[r].sawOther /\ ~runs[o].sawOther
    /\ runs[r].apy # runs[o].apy
    /\ Len(store[poolIdOf(runs[r].pool)]) = MAX_HISTORY_DAYS
    /\ store[poolIdOf(runs[r].pool)][1] = Snapshot(runs[r].date, runs[r].apy)

(***************************************************************************)
(* Properties of a pipeline run (SpecRun)                                  *)
(***************************************************************************)
AllSettled == \A a \in Adapters : raw[a].status # "pending"

\* C14: within one run of postDailyYields no history write happens before
\* fetchTonYields has awaited all adapters and returned the merged buckets,
\* and a run whose aggregation rejects writes no history at all.
C14_WritesOnlyAfterAggregation ==
  /\ post.writes > 0 => pc = "done" /\ AllSettled
  /\ pc = "rejected" => post.writes = 0
  /\ post.pc \in {"averages", "snapshots", "tvl", "sending", "posted"} => pc = "done"

\* a run that wrote the history of two or more pools and posted, although an
\* adapter had failed
C14_Witness ==
  /\ post.pc = "posted"
  /\ post.writes >= 2
  /\ post.writes >= Len(allPools)
  /\ \E a \in Adapters : raw[a].status = "failed"

RunCompleted == post.pc \in {"posted", "skipped", "failed"}

\* C16: every pipeline run eventually completes, with a post or a skip (or a
\* reported failure), even when a provider never answers: a network call of
\* an adapter is given up after a bounded time and counts as that call's
\* failure, so fetchTonYields never waits forever on one call.
C16_RunEventuallyCompletes == <>RunCompleted

(***************************************************************************)
(* Properties of store failures (SpecHist)                                 *)
(***************************************************************************)
\* C15: a failure of the history store on read or on write never makes
\* calculate7DayAverage, calculateAll7DayAverages, saveApySnapshot,
\* saveAllApySnapshots or saveTvlSnapshot reject and never aborts the run;
\* its only visible effect is that the pool's average of that run is absent.
\* Every call of the model ends by returning, as the try/catch of the code
\* makes it; what is left to hold is that a call that met a failure yields
\* no average, and leaves the stored history either as it found it or as
\* the same call without the failure would have left it.
C15_FailureOnlyHidesAverage ==
  /\ AvgDone /\ ~op.readOk => op.result = None
  /\ SaveDone /\ ~op.writeOk => store[OpId] = op.before
  /\ SaveDone /\ ~op.readOk =>
       store[OpId] \in {op.before, upsertSnapshot(op.before, op.date, op.apy)}

(***************************************************************************)
(* Properties of malformed records (SpecMalformed)                         *)
(***************************************************************************)
\* C17: for every adapter, when exactly one raw record of a provider response
\* is malformed (a required field is missing or a numeric field does not
\* parse), only that record is dropped: the adapter emits exactly the records
\* it would emit for the same response without the malformed record.
C17_OnlyMalformedRecordDropped ==
  call.fn = "fetchYields" =>
    call.result = adapterOutcome(call.arg.adapter, call.arg.good)
(***************************************************************************)
(* Properties of the classifier (SpecClassify)                             *)
(***************************************************************************)
\* the symbol, case-folded and stripped of everything but A-Z and 0-9,
\* contains an identifier of the list (stripped in the same way)
ContainsIdentifier(symbol, list) ==
  LET folded == stripNonUpperAlnum(toUpperCase(symbol))
  IN  \E k \in DOMAIN list :
        LET id == stripNonUpperAlnum(list[k])
        IN  \E i \in 0..Len(folded) :
              /\ i + Len(id) <= Len(folded)
              /\ SubSeq(folded, i + 1, i + Len(id)) = id

\* C18: classifyAsset returns exactly one of TON, STABLE, BTC for every
\* symbol, and which one is fixed by the symbol alone: STABLE whenever the
\* folded symbol contains a stablecoin identifier (also when it contains a
\* BTC identifier), BTC exactly when it contains a BTC identifier and no
\* stablecoin identifier, TON otherwise
C18_ClassifyTotalWithPrecedence ==
  call.fn = "classifyAsset" =>
    LET stable == ContainsIdentifier(call.arg.symbol, STABLE_ASSETS)
        btc    == ContainsIdentifier(call.arg.symbol, BTC_ASSETS)
    IN  /\ call.result \in AssetTypes
        /\ stable => call.result = "STABLE"
        /\ (call.result = "BTC") <=> (~stable /\ btc)
        /\ (~stable /\ ~btc) => call.result = "TON"

\* a symbol with a stablecoin and a BTC identifier was classified STABLE
C18_Witness ==
  /\ call.fn = "classifyAsset"
  /\ ContainsIdentifier(call.arg.symbol, STABLE_ASSETS)
  /\ ContainsIdentifier(call.arg.symbol, BTC_ASSETS)
  /\ call.result = "STABLE"

\* C19: for every entry [A, B] of a category's correlated table,
\* isCorrelatedPair("A-B", category) and isCorrelatedPair("B-A", category)
\* are both true
C19_TableEntriesCorrelated ==
  (call.fn = "isCorrelatedPair" /\ call.arg.symbol \in TablePairSymbols(call.arg.assetType))
    => call.result = TRUE

\* the two members of every entry of the category's table, case-folded as
\* parseLpPair folds the assets
EntryMembers(assetType) ==
  LET table == CORRELATED_PAIRS(assetType)
  IN  {{toUpperCase(table[i][1]), toUpperCase(table[i][2])} : i \in DOMAIN table}

\* C20: isCorrelatedPair is true for a pair symbol only if the two assets
\* returned by parseLpPair are the two members of some entry of the
\* category's table, in either order
C20_CorrelatedOnlyByTableEntry ==
  (call.fn = "isCorrelatedPair" /\ ~isSingleAsset(call.arg.symbol) /\ call.result = TRUE)
    => LET pair == parseLpPair(call.arg.symbol)
       IN  /\ ~IsNone(pair)
           /\ {Get(pair)[1], Get(pair)[2]} \in EntryMembers(call.arg.assetType)
\* a part that is a vault, pool or index marker, or a bare numeral
IsMarkerPart(part) ==
  \/ \E k \in DOMAIN VAULT_SUFFIXES : includes(toUpperCase(part), VAULT_SUFFIXES[k])
  \/ isNumeric(part)

\* the parts of the symbol that are no markers, upper-cased
SurvivingTokens(symbol) ==
  LET kept == SelectSeq(splitPair(symbol), LAMBDA part : ~IsMarkerPart(part))
  IN  [i \in DOMAIN kept |-> toUpperCase(kept[i])]

\* C21: parseLpPair returns the two parts of a two-part symbol; of a symbol
\* of three or more parts it returns the first surviving token and the first
\* surviving token different from it; it returns nothing when fewer than two
\* distinct tokens survive
C21_ParseLpPair ==
  call.fn = "parseLpPair" =>
    LET parts  == splitPair(call.arg.symbol)
        tokens == SurvivingTokens(call.arg.symbol)
        others == {i \in DOMAIN tokens : tokens[i] # tokens[1]}
    IN  /\ Len(parts) = 2 =>
              call.result = Some(<<toUpperCase(parts[1]), toUpperCase(parts[2])>>)
        /\ (Len(parts) >= 3 /\ others # {}) =>
              call.result = Some(<<tokens[1], tokens[CHOOSE i \in others : \A j \in others : i <= j]>>)
        /\ (Len(parts) # 2 /\ others = {}) => call.result = None
(***************************************************************************)
(* Properties of the Euler decoder (SpecDecode)                            *)
(***************************************************************************)
\* 8_100_000_000_000_000_000_000_000
SupplyAPYExample == <<"8","1">> \o Zeros(23)

\* C22: formatSupplyAPY maps the integer 8100000000000000000000000 to the
\* percentage 8.1
C22_DecodesExampleTo8Point1 ==
  (call.fn = "formatSupplyAPY" /\ call.arg.supplyAPY = SupplyAPYExample)
    => call.result = Decimal(<<"8","1">>, -1)
(***************************************************************************)
(* Properties of the Euler adapter (SpecEuler)                             *)
(***************************************************************************)
\* the vault is read well and its data has an asset symbol
GoodVault(v) == v.readOk /\ v.data.assetSymbol # Undefined

\* the data of the good vaults among the first n
GoodData(vaults, n) ==
  LET good == SelectSeq(SubSeq(vaults, 1, n), GoodVault)
  IN  [k \in DOMAIN good |-> good[k].data]

\* the number of vaults whose batch has been pushed to allYields
PushedVaults ==
  IF euler.pc = "delay" THEN batchEnd(euler.i, Len(euler.vaults))
  ELSE IF euler.i < Len(euler.vaults) THEN euler.i ELSE Len(euler.vaults)

\* C23: whatever vaults fail to be read or to be transformed, every batch
\* pushes the records of its other vaults, and fetchEulerYields returns
\* what it returns for the good vaults alone; a failure of a vault never
\* makes the adapter return through its catch block
C23_VaultFailureIsIsolated ==
  /\ euler.pc \in {"loop", "awaiting", "delay", "done"} =>
       euler.allYields = flatMap(GoodData(euler.vaults, PushedVaults), transformEulerVault)
  /\ euler.pc = "done" =>
       euler.result = fetchEulerYields(Answer(GoodData(euler.vaults, Len(euler.vaults))))
  /\ euler.pc = "failed" => euler.vaults = <<>>

\* two batches; a vault of the second batch failed and another vault of that
\* batch is in the result
C23_Witness ==
  /\ euler.pc = "done"
  /\ Len(euler.vaults) > batchSize + 1
  /\ \E k, j \in (batchSize + 1)..Len(euler.vaults) :
       /\ ~GoodVault(euler.vaults[k])
       /\ GoodVault(euler.vaults[j])
       /\ transformEulerVault(euler.vaults[j].data) # <<>>
       /\ \E r \in DOMAIN euler.result : <<euler.result[r]>> = transformEulerVault(euler.vaults[j].data)

\* C24: the reads are issued in consecutive batches of at most batchSize:
\* when the reads of a batch are in flight, exactly the vaults up to the end
\* of that batch have been read, once each, every read of the earlier
\* batches has settled, and one delay has elapsed per earlier batch; at the
\* return every verified vault has been read exactly once
C24_BatchesOfFiveInSequence ==
  /\ Cardinality(euler.inflight) <= batchSize
  /\ \A k \in DOMAIN euler.reads : euler.reads[k] <= 1
  /\ euler.pc = "awaiting" =>
       /\ euler.inflight \subseteq (euler.i + 1)..batchEnd(euler.i, Len(euler.vaults))
       /\ {k \in DOMAIN euler.reads : euler.reads[k] = 1} = 1..batchEnd(euler.i, Len(euler.vaults))
       /\ \A k \in 1..euler.i : euler.results[k] # Unsettled
       /\ euler.waited * batchSize = euler.i
  /\ euler.pc # "awaiting" => euler.inflight = {}
  /\ euler.pc = "done" => \A k \in DOMAIN euler.reads : euler.reads[k] = 1

\* the reads of a second batch are in flight
C24_Witness ==
  /\ euler.pc = "awaiting"
  /\ euler.i = batchSize
  /\ Cardinality(euler.inflight) >= 2
  /\ euler.waited = 1
(***************************************************************************)
(* Properties of the order of completion (SpecOrder)                       *)
(***************************************************************************)
\* the order in which fetchTonYields takes the adapters' results
MergeOrder == <<"DefiLlama", "Merkl", "Morpho", "Euler", "YieldFi", "Ethena", "SwapCoffee">>

\* the records an adapter returns, from its own answer alone
OwnRecords(adapter, answer) ==
  CASE adapter = "DefiLlama"  -> flat([i \in 1..4 |->
                                        fetchDefiLlamaYields(answer)[<<"TON", "STABLE", "BTC", "TON_USDT">>[i]]])
    [] adapter = "Merkl"      -> fetchMerklYields(answer)
    [] adapter = "Morpho"     -> fetchMorphoYields(answer)
    [] adapter = "Euler"      -> fetchEulerYields(answer)
    [] adapter = "YieldFi"    -> fetchYieldFiYields(answer)
    [] adapter = "Ethena"     -> fetchEthenaYields(answer)
    [] adapter = "SwapCoffee" -> fetchSwapCoffeeYields(answer)

\* the records of all adapters in the order of the call list
RecordsInMergeOrder(answers) ==
  flat([i \in DOMAIN MergeOrder |-> OwnRecords(MergeOrder[i], answers[MergeOrder[i]])])

\* C25: the buckets returned by fetchTonYields are fixed by the seven
\* answers alone, whatever the order in which the calls completed: each
\* bucket is the adapters' own records, taken in the order of the call
\* list, sorted by TVL
C25_MergeIgnoresCompletionOrder ==
  pc = "done" =>
    LET records == RecordsInMergeOrder(raw)
    IN  \A key \in BucketKeys :
          LET InBucket(pool) == bucketOf(pool) = key
              own == filter(records, InBucket)
          IN  buckets[key] = sortByTvl(own)

\* the calls completed in the reverse of the order of the call list, and two
\* adapters have records of equal TVL in one bucket
C25_Witness ==
  /\ pc = "done"
  /\ settled = [i \in 1..Len(MergeOrder) |-> MergeOrder[Len(MergeOrder) + 1 - i]]
  /\ \E key \in BucketKeys : \E i, j \in DOMAIN buckets[key] :
       /\ i < j
       /\ buckets[key][i].adapter # buckets[key][j].adapter
       /\ buckets[key][i].tvlUsd = buckets[key][j].tvlUsd
(***************************************************************************)
(* Properties of an empty run (SpecRun)                                    *)
(***************************************************************************)
\* every adapter call has returned, and returned an empty list
AdaptersReturnedEmpty ==
  /\ \A a \in Adapters : raw[a].status # "pending"
  /\ ~fetchTonYieldsRejects(raw)
  /\ \A a \in Adapters : OwnRecords(a, raw[a]) = <<>>

\* C26: when every adapter returns an empty list, fetchTonYields does not
\* reject and returns four empty buckets, and postDailyYields skips the
\* publication: no message is sent and no APY or TVL snapshot is written
C26_EmptyRunIsSkipped ==
  AdaptersReturnedEmpty =>
    /\ pc \in {"awaiting", "done"}
    /\ pc = "done" => buckets = EmptyBuckets
    /\ post.pc \in {"idle", "skipped"}
    /\ post.writes = 0

\* a run was skipped after every adapter returned an empty list, one of
\* them after its request failed and one after filtering its only record
C26_Witness ==
  /\ AdaptersReturnedEmpty
  /\ post.pc = "skipped"
  /\ \E a \in Adapters : raw[a].status = "failed"
  /\ \E a \in Adapters : raw[a].status = "ok" /\ raw[a].data # <<>>

UnitFreeFields ==
  {"assetType", "source", "asset", "poolMeta", "apyBase", "apyReward", "apyTotal",
   "tvlUsd", "isTonUsdtPool", "adapter", "project"}

\* the record has a flag or a unit tag besides those fields
HasUnitTag(pool) == (DOMAIN pool) \ UnitFreeFields # {}

\* C27: every record whose tvlUsd is a token count (the records of the
\* Euler adapter) carries a flag or unit tag that tells it from the
\* USD-valued records it is sorted and filtered with
C27_ProxyTvlIsFlagged ==
  pc = "done" =>
    \A key \in BucketKeys : \A i \in DOMAIN buckets[key] :
      buckets[key][i].adapter = "Euler" => HasUnitTag(buckets[key][i])
(***************************************************************************)
(* Properties of the history phase of formatChannelMessage (SpecDay)       *)
(***************************************************************************)
\* the snapshots of a history that are not dated the given day
WithoutDate(snapshots, date) == SelectSeq(snapshots, LAMBDA snap : snap.date # date)

\* no run of today had saved a snapshot of this identity when the call started
FirstRunOfDay(poolId) == findIndexOfDate(fmt.before[poolId], today) = 0

\* C28: the 7-day averages of a run are all computed before the run writes a
\* snapshot, hence from the store as it was when the run started; on the
\* first run of a day the average leaves out that day's apyTotal, and a pool
\* with exactly two earlier snapshots has no average in the run that stores
\* its third
C28_AveragesPrecedeSnapshots ==
  /\ fmt.pc = "averages" =>
       /\ store = fmt.before
       /\ \A i \in DOMAIN fmt.pools : fmt.saves[i].pc = "idle"
  /\ fmt.pc \in {"snapshots", "done"} =>
       \A i \in DOMAIN fmt.pools :
         LET poolId == poolIdOf(fmt.pools[i])
             earlier == fmt.before[poolId]
             average == fmt.averages[i]
         IN  /\ average \in {None, calculate7DayAverage(earlier)}
             /\ (fmt.pc = "done" /\ ~fmt.failed /\ FirstRunOfDay(poolId)) =>
                  /\ average = calculate7DayAverage(WithoutDate(store[poolId], today))
                  /\ Len(earlier) = MIN_DAYS_FOR_AVERAGE - 1 =>
                       IsNone(avg7d(average)) /\ Len(store[poolId]) = MIN_DAYS_FOR_AVERAGE

\* a first run of the day has stored the third snapshot of a pool and has
\* shown no average for it
C28_Witness ==
  /\ fmt.pc = "done" /\ ~fmt.failed
  /\ \E i \in DOMAIN fmt.pools :
       LET poolId == poolIdOf(fmt.pools[i])
       IN  /\ FirstRunOfDay(poolId)
           /\ Len(fmt.before[poolId]) = MIN_DAYS_FOR_AVERAGE - 1
           /\ Len(store[poolId]) = MIN_DAYS_FOR_AVERAGE
           /\ store[poolId][1] = Snapshot(today, fmt.pools[i].apyTotal)
           /\ IsNone(avg7d(fmt.averages[i]))

\* the positions, in the stored history, of the snapshots dated today
TodaysSnapshots(poolId) == {k \in DOMAIN store[poolId] : store[poolId][k].date = today}

====
